---- MODULE Spec2Model ----
(***************************************************************************)
(* The CreatorVault vanity-address miners as one state machine.            *)
(*                                                                         *)
(* Eight search programs share one shape: a rayon parallel iterator hands  *)
(* items to the threads of a pool, every item runs a closure that reads    *)
(* the shared FoundFlag (`found`), derives a CREATE2 address (or a key),   *)
(* counts the attempt in the shared AttemptCounter (`attempts`) and, on a  *)
(* match, stores `found` and returns the match; a detached reporter thread *)
(* reads both atomics.  `prog` says which program a behaviour runs.        *)
(*                                                                         *)
(* Atomics are Relaxed in every program; each load, store and fetch_add is *)
(* one step of the interleaving (a single modification order per atomic).  *)
(* Keccak-256 is not computed: `hits` is the set of candidates whose       *)
(* preimage hashes to a matching address, drawn once per behaviour, and    *)
(* Keccak256 is the function of the 85 preimage bytes it induces.          *)
(***************************************************************************)
EXTENDS Integers, Sequences, FiniteSets, TLC

(***************************************************************************)
(* Bounds of the model.                                                    *)
(***************************************************************************)
\* pool threads of rayon's global pool (host parallelism)
MaxPool == 2
\* largest --threads value of vanity-gen
MaxThreads == 2
\* candidates one vanity-gen worker loop evaluates at most
MaxIter == 2

\* the same budget where a worker is followed through several batches
LongIter == 6
\* keypairs one vanity-keygen worker loop draws at most
MaxDraws == 3
\* vanity-gen's batch: the source flushes every 10000 iterations
\* (src/vanity-gen/src/main.rs:153); the model scales the batch down so
\* that a run reaches several flushes
BatchSize == 2
\* end of the counter ranges 0..u64::MAX (and 0..1_000_000_000 of
\* vanity-rust), scaled down
RangeEnd == 2
\* nonces the unbounded iterator 0u64.. of create2-miner hands out at most
MaxNonce == 2
\* candidates of one behaviour whose address matches, at most
MaxHits == 2

(***************************************************************************)
(* Program constants.                                                      *)
(***************************************************************************)
\* vanity-gen: let mut salt_value = thread_id as u64 * 1_000_000
ThreadOffset == 1000000

Programs ==
    { "vanity-gen", "create2-miner", "vanity-miner", "create2-miner-wlfi",
      "registry-full", "registry-partial", "vanity-rust", "vanity-keygen" }

Byte == 0..255

Zeros(n) == [i \in 1..n |-> 0]

\* Arachnid's deterministic deployment proxy, 0x4e59b4...956C
CREATE2_FACTORY ==
    <<78, 89, 180, 72, 71, 179, 121, 87, 133, 136, 146, 12, 167, 143, 191,
      38, 192, 180, 149, 108>>

\* create2-miner: INIT_CODE_HASH
INIT_CODE_HASH ==
    <<54, 178, 44, 116, 175, 87, 66, 107, 111, 249, 213, 16, 238, 194, 183,
      121, 58, 238, 78, 189, 144, 165, 199, 99, 240, 50, 240, 86, 30, 82, 83, 9>>

\* create2-miner-wlfi: INIT_CODE_HASH
WLFI_INIT_CODE_HASH ==
    <<63, 165, 136, 47, 111, 120, 226, 194, 78, 98, 246, 37, 144, 43, 114,
      24, 192, 111, 46, 251, 9, 225, 118, 180, 182, 174, 220, 234, 183, 204, 134, 8>>

\* vanity-miner: EagleVaultWrapper bytecode hash
MINER_INIT_CODE_HASH ==
    <<99, 111, 26, 41, 150, 244, 175, 187, 205, 173, 208, 151, 160, 230, 26,
      224, 89, 104, 254, 118, 246, 209, 4, 78, 50, 228, 81, 162, 228, 99, 3, 170>>

\* vanity-rust: factory and init code hash
RUST_FACTORY ==
    <<105, 93, 107, 54, 40, 180, 112, 30, 126, 175, 192, 188, 81, 28, 186,
      242, 63, 96, 3, 238>>

RUST_INIT_CODE_HASH ==
    <<51, 117, 105, 150, 76, 216, 71, 105, 161, 190, 180, 68, 115, 151, 227,
      148, 239, 134, 76, 154, 118, 237, 11, 43, 230, 206, 72, 36, 104, 169, 212, 91>>

\* vanity-registry: the deployer 0x7310Dd...2031
REG_DEPLOYER ==
    <<115, 16, 221, 110, 248, 155, 127, 130, 152, 57, 241, 64, 198, 132, 11,
      201, 41, 186, 32, 49>>

\* vanity-registry hashes the init code read from a build artifact; the
\* artifact is outside the repository, any 32 bytes stand for its hash
REG_INIT_CODE_HASH == [i \in 1..32 |-> 17]

\* vanity-gen takes factory and init hash from the command line; the run
\* modelled is the one of the regression pin: Arachnid's factory, zero hash
GEN_FACTORY == CREATE2_FACTORY

GEN_INIT_CODE_HASH == Zeros(32)

(***************************************************************************)
(* Candidates: u64::to_be_bytes and the 32-byte salt.                      *)
(***************************************************************************)
\* 256^k for the four low bytes; the counters of the model stay below 2^31
\* (the integers TLC computes with), so the four high bytes are zero
Pow256(k) == IF k = 0 THEN 1 ELSE
             IF k = 1 THEN 256 ELSE
             IF k = 2 THEN 65536 ELSE 16777216

\* n.to_be_bytes() of a u64: most significant byte first
to_be_bytes(n) ==
    [j \in 1..8 |-> IF 8 - j >= 4 THEN 0 ELSE (n \div Pow256(8 - j)) % 256]

\* let mut salt = [0u8; 32]; salt[24..32].copy_from_slice(&n.to_be_bytes())
SaltOf(n) == Zeros(24) \o to_be_bytes(n)

(***************************************************************************)
(* State.                                                                  *)
(***************************************************************************)
VARIABLES
    prog,        \* the program this behaviour runs
    threads,     \* vanity-gen: args.threads; vanity-keygen: num_cpus::get()
    pool,        \* threads of rayon's global pool
    hits,        \* the candidates whose derived digest matches (the hash oracle)
    found,       \* FoundFlag: Arc<AtomicBool>
    attempts,    \* AttemptCounter: Arc<AtomicU64>
    taken,       \* items of the parallel iterator handed to a pool thread
    rfound,      \* rayon's own flag of find_any: some closure returned a match
    results,     \* what the closures returned as Some(..) / true, by item
    tpc,         \* per pool thread: where it is in the closure
    titem,       \* per pool thread: the item it runs (thread_id, nonce, i)
    salt_value,  \* per pool thread: the candidate counter (or random draw)
    local_attempts, \* per pool thread: vanity-gen's unflushed attempts
    address,     \* per pool thread: the digest it derived last
    mainpc,      \* main thread: "searching", "returned", "finished", "panicked"
    result,      \* what the search returned to main: {} is None, {r} is Some(r)
    printed,     \* matches printed from inside the closure (find_any miners)
    total_attempts, \* the total main reports
    rpc,         \* progress reporter: "none", "sleep", "report", "exited"
    last_attempts,  \* vanity-registry's reporter: the previous reading
    visited,     \* history: per item, the candidates its closure derived
    foundBy,     \* history: the pool threads that stored found, in order
    attemptsAtFound, \* history: attempts when found became true
    activeAtFound,   \* history: pool threads inside a closure at that moment
    derivedAfterFound, \* history: per pool thread, its derivations with found true
    fin,         \* a function called on its own: the arguments
    fout,        \* a function called on its own: what it returned
    args,        \* vanity-gen: the command line, Args::parse()
    parsed,      \* vanity-gen: factory and init_code_hash as main parsed them
    budget,      \* vanity-gen: the candidates a worker loop is followed through
    oft_config,  \* eagle-oft-layerzero: the OftConfig account
    peer_config, \* the PeerConfig / PeerChainConfig accounts, by endpoint id
    mint_supply, \* SPL token: the supply of the program's mint
    token_amount, \* SPL token: the amount of each token account
    ret,         \* the instruction processed last and how it ended
    config,      \* eagle-share-oft, -minimal, eagle-oft-raw: the Config account
    registry_config, \* eagle-registry-solana: the RegistryConfig account
    contract,    \* all-contracts-real-deployer: the contract searched for, 1..4
    all_results, \* all-contracts-real-deployer: main's Vec<VanityResult>
    first_search \* the flag and counter the first search's reporter holds

vars ==
    << prog, threads, pool, hits, found, attempts, taken, rfound, results,
       tpc, titem, salt_value, local_attempts, address, mainpc, result,
       printed, total_attempts, rpc, last_attempts, visited, foundBy,
       attemptsAtFound, activeAtFound, derivedAfterFound, fin, fout, args,
       parsed, budget,
       oft_config, peer_config, mint_supply, token_amount, ret, config,
       registry_config, contract, all_results, first_search >>

\* the accounts of the on-chain programs
chainVars ==
    <<oft_config, peer_config, mint_supply, token_amount, ret, config,
      registry_config>>

\* main of all-contracts-real-deployer between its searches
allVars == <<contract, all_results, first_search>>

\* a program of one search
NoContracts ==
    /\ contract = 0
    /\ all_results = <<>>
    /\ first_search = [found |-> FALSE, attempts |-> 0]

Threads == 1..pool

\* Rust indexes from 0
At(s, i) == s[i + 1]

starts_with(s, p) == Len(p) <= Len(s) /\ SubSeq(s, 1, Len(p)) = p

ends_with(s, p) ==
    Len(p) <= Len(s) /\ SubSeq(s, Len(s) - Len(p) + 1, Len(s)) = p

(***************************************************************************)
(* AddressDerivation.                                                      *)
(***************************************************************************)
\* the factory / init-code-hash each program is configured with
FactoryOf(p) ==
    CASE p = "vanity-rust" -> RUST_FACTORY
      [] p \in {"registry-full", "registry-partial"} -> REG_DEPLOYER
      [] p = "vanity-gen" -> GEN_FACTORY
      [] OTHER -> CREATE2_FACTORY

InitHashOf(p) ==
    CASE p = "vanity-rust" -> RUST_INIT_CODE_HASH
      [] p \in {"registry-full", "registry-partial"} -> REG_INIT_CODE_HASH
      [] p = "vanity-gen" -> GEN_INIT_CODE_HASH
      [] p = "create2-miner" -> INIT_CODE_HASH
      [] p = "vanity-miner" -> MINER_INIT_CODE_HASH
      [] OTHER -> WLFI_INIT_CODE_HASH

\* a digest whose low 20 bytes are 47 00..00 0e a9 1e
HASH_HIT ==
    [i \in 1..32 |-> IF i <= 12 THEN 255
                     ELSE IF i = 13 THEN 71
                     ELSE IF i = 30 THEN 14
                     ELSE IF i = 31 THEN 169
                     ELSE IF i = 32 THEN 30 ELSE 0]

\* a digest whose low 20 bytes are 00 00..00 0e a9 1e, and whose byte 0 is 47
HASH_MISS ==
    [i \in 1..32 |-> IF i = 1 THEN 71
                     ELSE IF i = 30 THEN 14
                     ELSE IF i = 31 THEN 169
                     ELSE IF i = 32 THEN 30 ELSE 0]

\* the 85 bytes every variant hashes
Preimage(factory, salt, init_code_hash) ==
    <<255>> \o factory \o salt \o init_code_hash

\* Keccak-256 as the oracle `hits` induces it for the configured run
Keccak256(data) ==
    IF \E n \in hits :
          data = Preimage(FactoryOf(prog), SaltOf(n), InitHashOf(prog))
    THEN HASH_HIT ELSE HASH_MISS

\* vanity-gen
calculate_create2_address(factory, salt, init_code_hash) ==
    LET hash == Keccak256(<<255>> \o factory \o salt \o init_code_hash)
    IN  SubSeq(hash, 13, 32)

\* create2-miner
compute_create2_address(factory, salt, init_code_hash) ==
    LET output == Keccak256(<<255>> \o factory \o salt \o init_code_hash)
    IN  SubSeq(output, 13, Len(output))

\* a derivation that hashes the salt ahead of the factory
salt_first_create2_address(factory, salt, init_code_hash) ==
    LET data == ((<<255>> \o salt) \o factory) \o init_code_hash
        hash == Keccak256(data)
    IN  SubSeq(hash, 13, 32)

\* vanity-miner
miner_compute_create2_address(factory, salt, init_code_hash) ==
    LET data == ((<<255>> \o factory) \o salt) \o init_code_hash
        hash == Keccak256(data)
    IN  SubSeq(hash, 13, 32)

\* create2-miner-wlfi: the salt is a u64
wlfi_compute_create2_address(salt) ==
    LET hash == Keccak256((((<<255>> \o CREATE2_FACTORY) \o Zeros(24))
                              \o to_be_bytes(salt)) \o WLFI_INIT_CODE_HASH)
    IN  SubSeq(hash, 13, 32)

\* vanity-registry (all-contracts-real-deployer)
reg_calculate_create2_address(deployer, salt, init_code_hash) ==
    LET hash == Keccak256(<<255>> \o deployer \o salt \o init_code_hash)
    IN  SubSeq(hash, 13, Len(hash))

\* vanity-rust
create2_address(factory, salt, init_code_hash) ==
    LET hash == Keccak256(<<255>> \o factory \o salt \o init_code_hash)
    IN  SubSeq(hash, 13, 32)

\* vanity-keygen: keypair.pubkey().to_string() of the keypair drawn;
\* the base58 text is cut to the characters the pattern looks at
pubkey(keypair) ==
    IF keypair \in hits
    THEN <<"4", "7", "x", "E", "A", "G", "L">>
    ELSE <<"4", "8", "x", "E", "A", "G", "L">>

(***************************************************************************)
(* PatternMatcher.                                                         *)
(***************************************************************************)
HexDigits ==
    <<"0", "1", "2", "3", "4", "5", "6", "7", "8", "9",
      "a", "b", "c", "d", "e", "f">>

\* hex::encode: two lowercase digits per byte, high nibble first
RECURSIVE hex_encode(_)
hex_encode(bytes) ==
    IF bytes = <<>> THEN <<>>
    ELSE <<HexDigits[(Head(bytes) \div 16) + 1],
           HexDigits[(Head(bytes) % 16) + 1]>> \o hex_encode(Tail(bytes))

LowerChar(c) ==
    CASE c = "A" -> "a" [] c = "B" -> "b" [] c = "C" -> "c"
      [] c = "D" -> "d" [] c = "E" -> "e" [] c = "F" -> "f"
      [] c = "G" -> "g" [] c = "X" -> "x" [] OTHER -> c

\* a pattern taken as it was typed
keep_case(str) == str

\* str::to_lowercase
to_lowercase(str) == [i \in 1..Len(str) |-> LowerChar(str[i])]

\* vanity-gen: the pattern of the run, --prefix 47 --suffix 0EA91E
GEN_PREFIX == <<"4", "7">>

GEN_SUFFIX == <<"0", "E", "A", "9", "1", "E">>

\* s.strip_prefix("0x").unwrap_or(s)
strip_0x(s) ==
    IF Len(s) >= 2 /\ SubSeq(s, 1, 2) = <<"0", "x">>
    THEN SubSeq(s, 3, Len(s)) ELSE s

HexChars ==
    { "0", "1", "2", "3", "4", "5", "6", "7", "8", "9",
      "a", "b", "c", "d", "e", "f", "A", "B", "C", "D", "E", "F" }

\* the value of one hex digit, of either case
val(c) ==
    CASE c = "0" -> 0 [] c = "1" -> 1 [] c = "2" -> 2 [] c = "3" -> 3
      [] c = "4" -> 4 [] c = "5" -> 5 [] c = "6" -> 6 [] c = "7" -> 7
      [] c = "8" -> 8 [] c = "9" -> 9 [] c = "a" -> 10 [] c = "A" -> 10
      [] c = "b" -> 11 [] c = "B" -> 11 [] c = "c" -> 12 [] c = "C" -> 12
      [] c = "d" -> 13 [] c = "D" -> 13 [] c = "e" -> 14 [] c = "E" -> 14
      [] c = "f" -> 15 [] c = "F" -> 15

\* Result::Err of hex::decode
DecodeErr == [ok |-> FALSE, bytes |-> <<>>]

\* hex::decode: an odd length or a character that is no hex digit is an
\* error, otherwise one byte per pair of digits
hex_decode(str) ==
    IF Len(str) % 2 = 1 THEN DecodeErr
    ELSE IF \E i \in 1..Len(str) : str[i] \notin HexChars THEN DecodeErr
    ELSE [ok |-> TRUE,
          bytes |-> [k \in 1..(Len(str) \div 2) |->
                        16 * val(str[2 * k - 1]) + val(str[2 * k])]]

\* vanity-gen: the command line of the run
GenArgs ==
    [factory |-> <<"0", "x">> \o hex_encode(GEN_FACTORY),
     init_hash |-> <<"0", "x">> \o hex_encode(GEN_INIT_CODE_HASH),
     prefix |-> GEN_PREFIX,
     suffix |-> GEN_SUFFIX]

\* vanity-gen: the factory and the init-code hash main has parsed
gen_factory == hex_decode(strip_0x(args.factory)).bytes

gen_init_code_hash == hex_decode(strip_0x(args.init_hash)).bytes

\* the two locals of main before and after the command line is parsed
NotParsed == [factory |-> <<>>, init_code_hash |-> <<>>]

Parsed == [factory |-> gen_factory, init_code_hash |-> gen_init_code_hash]

\* vanity-gen
matches_pattern(addr, prefix, suffix) ==
    LET addr_hex == hex_encode(addr)
    IN  /\ starts_with(addr_hex, to_lowercase(prefix))
        /\ ends_with(addr_hex, to_lowercase(suffix))

\* create2-miner
TARGET_PREFIX == <<71>>

matches_prefix(addr, prefix) == starts_with(addr, prefix)

\* vanity-miner: 0x47...0ea91e
miner_matches(addr) ==
    /\ At(addr, 0) = 71
    /\ At(addr, 17) = 14
    /\ At(addr, 18) = 169
    /\ At(addr, 19) = 30

\* create2-miner-wlfi
PREFIX == <<71>>

SUFFIX_BYTES == <<14, 169, 30>>

\* a suffix test that leaves out the middle byte
wlfi_matches_two(addr) ==
    LET last_three == <<At(addr, 17), At(addr, 18), At(addr, 19)>>
    IN  IF At(addr, 0) # At(PREFIX, 0) THEN FALSE
        ELSE IF At(last_three, 0) # At(SUFFIX_BYTES, 0) THEN FALSE
        ELSE IF At(last_three, 2) # At(SUFFIX_BYTES, 2) THEN FALSE
        ELSE TRUE

wlfi_matches(addr) ==
    LET last_three == <<At(addr, 17), At(addr, 18), At(addr, 19)>>
    IN  IF At(addr, 0) # At(PREFIX, 0) THEN FALSE
        ELSE IF At(last_three, 0) # At(SUFFIX_BYTES, 0) THEN FALSE
        ELSE IF At(last_three, 1) # At(SUFFIX_BYTES, 1) THEN FALSE
        ELSE IF At(last_three, 2) # At(SUFFIX_BYTES, 2) THEN FALSE
        ELSE TRUE

\* vanity-registry, find_vanity_full_pattern
full_pattern(addr) ==
    /\ At(addr, 0) = 71
    /\ At(addr, 17) = 14
    /\ At(addr, 18) = 169
    /\ At(addr, 19) = 30

\* vanity-registry, find_vanity_partial_pattern
partial_pattern(addr) == At(addr, 0) = 71

\* a suffix test on the whole of byte 17
rust_matches_whole_byte(addr) ==
    IF At(addr, 0) # 71 THEN FALSE
    ELSE /\ At(addr, 17) = 14
         /\ At(addr, 18) = 169
         /\ At(addr, 19) = 30

\* vanity-rust: 0x47 and the five hex digits ea91e (x & 0x0f is x % 16)
rust_matches(addr) ==
    IF At(addr, 0) # 71 THEN FALSE
    ELSE /\ At(addr, 17) % 16 = 14
         /\ At(addr, 18) = 169
         /\ At(addr, 19) = 30

\* vanity-keygen
keygen_matches(pk) ==
    /\ starts_with(pk, <<"4", "7">>)
    /\ ends_with(pk, <<"E", "A", "G", "L">>)

(***************************************************************************)
(* The search space of each program.                                       *)
(***************************************************************************)
LoopBased(p) == p \in {"vanity-gen", "vanity-keygen"}

\* the items of the parallel iterator
ItemsOf(p, n) ==
    CASE p = "vanity-gen" -> 0..(n - 1)         \* (0..threads)
      [] p = "vanity-keygen" -> 0..(n - 1)      \* (0..num_cpus::get())
      [] p = "create2-miner" -> 0..(MaxNonce - 1)   \* (0u64..), cut
      [] OTHER -> 0..(RangeEnd - 1)     \* (0..u64::MAX), (0..1_000_000_000)

\* (0u64..) never ends; the ranges do
Unbounded(p) == p = "create2-miner"

\* the candidate counter a closure starts from
StartCounter(p, item) ==
    IF p = "vanity-gen" THEN item * ThreadOffset ELSE item

\* what rng.gen() and Keypair::new() can draw: two samples stand for the
\* 2^256 values, one whose digest matches the pattern and one whose does not
RandomDraws == {0, 1}

RandomHit == {0}

\* the candidates a behaviour can derive
Keyspace(p, n) ==
    CASE p = "vanity-gen" ->
            { w * ThreadOffset + k : w \in 0..(n - 1), k \in 0..(MaxIter - 1) }
      [] p \in {"vanity-rust", "vanity-keygen"} -> RandomDraws
      [] OTHER -> ItemsOf(p, n)

\* the oracles a behaviour can run under
Oracles(p, n) ==
    CASE p \in {"vanity-rust", "vanity-keygen"} -> {RandomHit}
      [] p = "vanity-gen" ->
            \* a worker returns at its first match and derives nothing
            \* behind it, so one matching counter per worker covers its run
            { h \in SUBSET Keyspace(p, n) :
                /\ Cardinality(h) <= MaxHits
                /\ \A a, b \in h :
                      a # b => a \div ThreadOffset # b \div ThreadOffset }
      [] OTHER -> { h \in SUBSET Keyspace(p, n) : Cardinality(h) <= MaxHits }

HasReporter(p) ==
    p \in { "vanity-gen", "create2-miner", "vanity-miner",
            "create2-miner-wlfi", "registry-full" }

NoResult == {}

\* no function is called on its own
NoCall == <<>>

\* an account that was never created
NoAccount == [exists |-> FALSE]

\* no instruction was processed
NoRet == [ix |-> "none", err |-> "none"]

\* the miners run off chain: no account of the programs exists
NoChain ==
    /\ oft_config = NoAccount
    /\ peer_config = <<>>
    /\ mint_supply = 0
    /\ token_amount = <<>>
    /\ ret = NoRet
    /\ config = NoAccount
    /\ registry_config = NoAccount

\* the shared state and the pool before the search
WorkersInit ==
    /\ found = FALSE
    /\ attempts = 0
    /\ taken = {}
    /\ rfound = FALSE
    /\ results = {}
    /\ tpc = [t \in Threads |-> "idle"]
    /\ titem = [t \in Threads |-> 0]
    /\ salt_value = [t \in Threads |-> 0]
    /\ local_attempts = [t \in Threads |-> 0]
    /\ address = [t \in Threads |-> <<>>]
    /\ result = NoResult
    /\ printed = {}
    /\ total_attempts = 0
    /\ last_attempts = 0
    /\ visited = [i \in ItemsOf(prog, threads) |-> <<>>]
    /\ foundBy = {}
    /\ attemptsAtFound = 0
    /\ activeAtFound = 0
    /\ derivedAfterFound = [t \in Threads |-> 0]

\* what a search starts from, once the program and its inputs are fixed
SearchInit ==
    /\ WorkersInit
    /\ mainpc = "searching"
    /\ rpc = IF HasReporter(prog) THEN "sleep" ELSE "none"

Init ==
    /\ prog \in Programs
    /\ pool \in 1..MaxPool
    /\ threads \in IF prog = "vanity-gen" THEN 1..MaxThreads ELSE {pool}
    /\ hits \in Oracles(prog, threads)
    /\ SearchInit
    /\ fin = NoCall
    /\ fout = NoCall
    /\ args = GenArgs
    /\ parsed = Parsed
    /\ budget = MaxIter
    /\ NoContracts
    /\ NoChain

\* what no step of a search changes: the configuration of the run, and the
\* functions called on their own
runVars ==
    <<prog, threads, pool, hits, fin, fout, args, budget, chainVars, allVars>>

cfgVars == <<runVars, parsed>>

repVars == <<rpc, last_attempts>>

mainVars == <<mainpc, result, total_attempts>>

foundHist == <<foundBy, attemptsAtFound, activeAtFound>>

\* the derivations recorded
visitHist == <<visited, derivedAfterFound>>

\* the locals of the closure a pool thread runs
locals == <<titem, salt_value, local_attempts, address>>

\* the pool threads inside a closure
Active == { u \in Threads : tpc[u] \notin {"idle", "done"} }

Min(S) == CHOOSE x \in S : \A y \in S : x <= y

(***************************************************************************)
(* rayon: into_par_iter / par_bridge with find_map_any / find_any.         *)
(* A free pool thread takes an item that is left unless some closure has   *)
(* already returned a match; the search returns when every pool thread is  *)
(* through, with one of the matches the closures returned.                 *)
(***************************************************************************)
\* the items a free thread may take next: any split of a range can be
\* stolen, par_bridge hands out the sequential iterator's next item
NextItems ==
    LET left == ItemsOf(prog, threads) \ taken
    IN  IF left = {} THEN {}
        ELSE IF prog = "create2-miner" THEN {Min(left)} ELSE left

\* the pool threads are interchangeable: of the free ones, the one with the
\* lowest index is the one that acts
LowestFree(t) ==
    /\ tpc[t] = "idle"
    /\ \A u \in Threads : u < t => tpc[u] # "idle"

Take(t, i) ==
    /\ mainpc = "searching"
    /\ LowestFree(t)
    /\ ~rfound
    /\ i \in NextItems
    /\ taken' = taken \cup {i}
    /\ titem' = [titem EXCEPT ![t] = i]
    /\ salt_value' = [salt_value EXCEPT ![t] = StartCounter(prog, i)]
    /\ local_attempts' = [local_attempts EXCEPT ![t] = 0]
    /\ tpc' = [tpc EXCEPT ![t] = "check"]
    /\ UNCHANGED <<cfgVars, found, attempts, rfound, results, address,
                   mainVars, printed, repVars, visitHist, foundHist>>

\* a pool thread is through: the consumer is full, or nothing is left
Retire(t) ==
    /\ mainpc = "searching"
    /\ LowestFree(t)
    /\ \/ rfound
       \/ ~Unbounded(prog) /\ ItemsOf(prog, threads) \ taken = {}
    /\ tpc' = [tpc EXCEPT ![t] = "done"]
    /\ UNCHANGED <<cfgVars, found, attempts, taken, rfound, results,
                   titem, salt_value, local_attempts, address,
                   mainVars, printed, repVars, visitHist, foundHist>>

\* a reduction that keeps every match the closures returned
FindAnyAll(rs) ==
    IF rs = {} THEN {NoResult} ELSE {rs}

\* FindReducer: left.or(right).  The leaves of a range are in item order, so
\* the leftmost match wins; par_bridge splits by thread, any match may win
FindAny(rs) ==
    IF rs = {} THEN {NoResult}
    ELSE IF prog = "create2-miner" THEN { {r} : r \in rs }
    ELSE { {r} : r \in { x \in rs : \A y \in rs : x.item <= y.item } }

SearchReturns ==
    /\ mainpc = "searching"
    /\ \A t \in Threads : tpc[t] = "done"
    /\ \E o \in FindAny(results) : result' = o
    /\ mainpc' = "returned"
    /\ UNCHANGED total_attempts
    /\ UNCHANGED <<cfgVars, found, attempts, taken, rfound, results, tpc,
                   titem, salt_value, local_attempts, address, printed,
                   repVars, visitHist, foundHist>>

\* found.store(true, Ordering::Relaxed) by pool thread t
StoreFound(t) ==
    /\ found' = TRUE
    /\ IF found
       THEN UNCHANGED foundHist
       ELSE /\ foundBy' = {titem[t]}
            /\ attemptsAtFound' = attempts
            /\ activeAtFound' = Cardinality(Active)

\* pool thread t goes on inside its closure
Goto(t, pc) ==
    /\ tpc' = [tpc EXCEPT ![t] = pc]
    /\ UNCHANGED <<rfound, results>>

\* the locals of a closure end with it
DropLocals(t) ==
    /\ titem' = [titem EXCEPT ![t] = 0]
    /\ salt_value' = [salt_value EXCEPT ![t] = 0]
    /\ local_attempts' = [local_attempts EXCEPT ![t] = 0]
    /\ address' = [address EXCEPT ![t] = <<>>]

\* the closure of pool thread t returns None / false
ReturnNone(t) ==
    /\ tpc' = [tpc EXCEPT ![t] = "idle"]
    /\ DropLocals(t)
    /\ UNCHANGED <<rfound, results>>

\* the closure of pool thread t returns Some(..) / true
ReturnSome(t, salt, addr, extra) ==
    /\ tpc' = [tpc EXCEPT ![t] = "idle"]
    /\ DropLocals(t)
    /\ rfound' = TRUE
    /\ results' = results \cup
          {[item |-> titem[t], salt |-> salt, address |-> addr, extra |-> extra]}

\* history: the closure of pool thread t derived the digest of candidate c
Visit(t, c) ==
    /\ visited' = [visited EXCEPT ![titem[t]] = Append(@, c)]
    /\ derivedAfterFound' =
          [derivedAfterFound EXCEPT ![t] = IF found THEN @ + 1 ELSE @]

(***************************************************************************)
(* vanity-gen: one worker loop per thread_id.                              *)
(***************************************************************************)
\* what main leaves alone before the search starts
startFrame ==
    <<runVars, found, attempts, taken, rfound, results, tpc, titem,
      salt_value, local_attempts, address, result, total_attempts, printed,
      last_attempts, visitHist, foundHist>>

\* hex::decode(factory_hex).expect(..).try_into().expect(..)
ParseFactory ==
    /\ prog = "vanity-gen"
    /\ mainpc = "parse_factory"
    /\ mainpc' = IF ~hex_decode(strip_0x(args.factory)).ok THEN "panicked"
                 ELSE IF Len(gen_factory) # 20 THEN "panicked"
                 ELSE "parse_init_hash"
    /\ parsed' = IF mainpc' = "panicked" THEN parsed
                 ELSE [parsed EXCEPT !.factory = gen_factory]
    /\ UNCHANGED <<startFrame, rpc>>

\* hex::decode(init_hash_hex).expect(..).try_into().expect(..)
ParseInitHash ==
    /\ prog = "vanity-gen"
    /\ mainpc = "parse_init_hash"
    /\ mainpc' = IF ~hex_decode(strip_0x(args.init_hash)).ok THEN "panicked"
                 ELSE IF Len(gen_init_code_hash) # 32 THEN "panicked"
                 ELSE "estimate"
    /\ parsed' = IF mainpc' = "panicked" THEN parsed
                 ELSE [parsed EXCEPT !.init_code_hash = gen_init_code_hash]
    /\ UNCHANGED <<startFrame, rpc>>

\* let expected_attempts = 1u64 << total_bits: a shift by 64 or more
\* panics where overflow checks are compiled in and wraps where not
EstimateDifficulty ==
    /\ prog = "vanity-gen"
    /\ mainpc = "estimate"
    /\ LET prefix_bits == Len(args.prefix) * 4
           suffix_bits == Len(args.suffix) * 4
           total_bits == prefix_bits + suffix_bits
       IN  IF total_bits >= 64
           THEN mainpc' \in {"panicked", "spawn"}
           ELSE mainpc' = "spawn"
    /\ UNCHANGED <<startFrame, rpc, parsed>>

\* std::thread::spawn of the progress reporter; the search comes next
SpawnReporter ==
    /\ prog = "vanity-gen"
    /\ mainpc = "spawn"
    /\ rpc' = "sleep"
    /\ mainpc' = "searching"
    /\ UNCHANGED <<startFrame, parsed>>

\* a worker that reads the flag at the start of a batch only
GenCheckEveryBatch(t) ==
    /\ prog = "vanity-gen"
    /\ tpc[t] = "check"
    /\ IF found /\ local_attempts[t] = 0
       THEN ReturnNone(t)
       ELSE /\ Len(visited[titem[t]]) < budget
            /\ Goto(t, "eval")
            /\ UNCHANGED locals
    /\ UNCHANGED <<cfgVars, found, attempts, taken, mainVars, printed,
                   repVars, visitHist, foundHist>>

GenCheck(t) ==
    /\ prog = "vanity-gen"
    /\ tpc[t] = "check"
    /\ IF found
       THEN ReturnNone(t)
       ELSE /\ Len(visited[titem[t]]) < budget
            /\ Goto(t, "eval")
            /\ UNCHANGED locals
    /\ UNCHANGED <<cfgVars, found, attempts, taken, mainVars, printed,
                   repVars, visitHist, foundHist>>

GenEval(t) ==
    /\ prog = "vanity-gen"
    /\ tpc[t] = "eval"
    /\ LET salt == SaltOf(salt_value[t])
           addr == calculate_create2_address(parsed.factory, salt,
                                             parsed.init_code_hash)
       IN  /\ address' = [address EXCEPT ![t] = addr]
           /\ Visit(t, salt_value[t])
           /\ IF matches_pattern(addr, args.prefix, args.suffix)
              THEN /\ StoreFound(t)
                   /\ Goto(t, "flush")
                   /\ UNCHANGED <<attempts, salt_value, local_attempts>>
              ELSE /\ salt_value' = [salt_value EXCEPT ![t] = @ + 1]
                   /\ IF (local_attempts[t] + 1) % BatchSize = 0
                      THEN /\ attempts' = attempts + BatchSize
                           /\ local_attempts' = [local_attempts EXCEPT ![t] = 0]
                      ELSE /\ attempts' = attempts
                           /\ local_attempts' = [local_attempts EXCEPT ![t] = @ + 1]
                   /\ Goto(t, "check")
                   /\ UNCHANGED <<found, foundHist>>
    /\ UNCHANGED titem
    /\ UNCHANGED <<cfgVars, taken, mainVars, printed, repVars>>

\* a worker that returns the salt of the counter behind the one it derived
GenFlushNextSalt(t) ==
    /\ prog = "vanity-gen"
    /\ tpc[t] = "flush"
    /\ attempts' = attempts + local_attempts[t]
    /\ ReturnSome(t, SaltOf(salt_value[t] + 1), address[t],
                  attempts + local_attempts[t])
    /\ UNCHANGED <<cfgVars, found, taken, mainVars, printed, repVars,
                   visitHist, foundHist>>

\* let total_attempts = attempts.fetch_add(local_attempts) + local_attempts;
\* return Some((salt, address, total_attempts))
GenFlush(t) ==
    /\ prog = "vanity-gen"
    /\ tpc[t] = "flush"
    /\ attempts' = attempts + local_attempts[t]
    /\ ReturnSome(t, SaltOf(salt_value[t]), address[t],
                  attempts + local_attempts[t])
    /\ UNCHANGED <<cfgVars, found, taken, mainVars, printed, repVars,
                   visitHist, foundHist>>

\* if let Some((salt, address, total_attempts)) = result { .. } else { .. }
GenFinish ==
    /\ prog = "vanity-gen"
    /\ mainpc = "returned"
    /\ total_attempts' = IF result = NoResult THEN total_attempts
                         ELSE (CHOOSE r \in result : TRUE).extra
    /\ mainpc' = "finished"
    /\ UNCHANGED result
    /\ UNCHANGED <<cfgVars, found, attempts, taken, rfound, results, tpc,
                   titem, salt_value, local_attempts, address, printed,
                   repVars, visitHist, foundHist>>

(***************************************************************************)
(* create2-miner: one closure call per nonce of (0u64..).par_bridge().     *)
(***************************************************************************)
C2Check(t) ==
    /\ prog = "create2-miner"
    /\ tpc[t] = "check"
    /\ IF found
       THEN ReturnNone(t)
       ELSE /\ Goto(t, "eval")
            /\ UNCHANGED locals
    /\ UNCHANGED <<cfgVars, found, attempts, taken, mainVars, printed,
                   repVars, visitHist, foundHist>>

C2Eval(t) ==
    /\ prog = "create2-miner"
    /\ tpc[t] = "eval"
    /\ LET nonce == titem[t]
           salt == SaltOf(nonce)
       IN  /\ address' = [address EXCEPT ![t] =
                 compute_create2_address(CREATE2_FACTORY, salt, INIT_CODE_HASH)]
           /\ Visit(t, nonce)
    /\ attempts' = attempts + 1
    /\ Goto(t, "match")
    /\ UNCHANGED <<cfgVars, found, taken, titem, salt_value,
                   local_attempts, mainVars, printed, repVars,
                   foundHist>>

\* a closure that stores the flag before it tests the prefix
C2MatchStoreFirst(t) ==
    /\ prog = "create2-miner"
    /\ tpc[t] = "match"
    /\ StoreFound(t)
    /\ IF matches_prefix(address[t], TARGET_PREFIX)
       THEN ReturnSome(t, SaltOf(titem[t]), address[t], titem[t])
       ELSE ReturnNone(t)
    /\ UNCHANGED <<cfgVars, attempts, taken, mainVars, printed, repVars,
                   visitHist>>

C2Match(t) ==
    /\ prog = "create2-miner"
    /\ tpc[t] = "match"
    /\ IF matches_prefix(address[t], TARGET_PREFIX)
       THEN /\ StoreFound(t)
            /\ ReturnSome(t, SaltOf(titem[t]), address[t], titem[t])
       ELSE /\ ReturnNone(t)
            /\ UNCHANGED <<found, foundHist>>
    /\ UNCHANGED <<cfgVars, attempts, taken, mainVars, printed, repVars,
                   visitHist>>

\* let total_attempts = attempts.load(Ordering::Relaxed); the report
C2Finish ==
    /\ prog = "create2-miner"
    /\ mainpc = "returned"
    /\ total_attempts' = attempts
    /\ mainpc' = "finished"
    /\ UNCHANGED result
    /\ UNCHANGED <<cfgVars, found, attempts, taken, rfound, results, tpc,
                   titem, salt_value, local_attempts, address, printed,
                   repVars, visitHist, foundHist>>

(***************************************************************************)
(* vanity-miner: find_any over (0..u64::MAX), the match is printed inside  *)
(* the closure.                                                            *)
(***************************************************************************)
MinerCheck(t) ==
    /\ prog = "vanity-miner"
    /\ tpc[t] = "check"
    /\ IF found
       THEN ReturnNone(t)
       ELSE /\ Goto(t, "eval")
            /\ UNCHANGED locals
    /\ UNCHANGED <<cfgVars, found, attempts, taken, mainVars, printed,
                   repVars, visitHist, foundHist>>

MinerEval(t) ==
    /\ prog = "vanity-miner"
    /\ tpc[t] = "eval"
    /\ LET i == titem[t]
           salt == SaltOf(i)
       IN  /\ address' = [address EXCEPT ![t] =
                 miner_compute_create2_address(CREATE2_FACTORY, salt,
                                               MINER_INIT_CODE_HASH)]
           /\ Visit(t, i)
    /\ attempts' = attempts + 1
    /\ Goto(t, "match")
    /\ UNCHANGED <<cfgVars, found, taken, titem, salt_value,
                   local_attempts, mainVars, printed, repVars,
                   foundHist>>

MinerMatch(t) ==
    /\ prog = "vanity-miner"
    /\ tpc[t] = "match"
    /\ IF miner_matches(address[t])
       THEN /\ StoreFound(t)
            /\ Goto(t, "report")
            /\ UNCHANGED locals
       ELSE /\ ReturnNone(t)
            /\ UNCHANGED <<found, foundHist>>
    /\ UNCHANGED <<cfgVars, attempts, taken, mainVars, printed, repVars,
                   visitHist>>

\* let attempts = counter.load(..); println!(..); return true
MinerReport(t) ==
    /\ prog = "vanity-miner"
    /\ tpc[t] = "report"
    /\ printed' = printed \cup
          {[item |-> titem[t], salt |-> SaltOf(titem[t]),
            address |-> address[t], extra |-> attempts]}
    /\ ReturnSome(t, SaltOf(titem[t]), address[t], attempts)
    /\ UNCHANGED <<cfgVars, found, attempts, taken, mainVars, repVars,
                   visitHist, foundHist>>

\* the value of find_any is dropped; main ends
MinerFinish ==
    /\ prog = "vanity-miner"
    /\ mainpc = "returned"
    /\ total_attempts' = total_attempts
    /\ mainpc' = "finished"
    /\ UNCHANGED result
    /\ UNCHANGED <<cfgVars, found, attempts, taken, rfound, results, tpc,
                   titem, salt_value, local_attempts, address, printed,
                   repVars, visitHist, foundHist>>

(***************************************************************************)
(* create2-miner-wlfi: find_any over (0u64..u64::MAX), the attempt is      *)
(* counted before the derivation.                                          *)
(***************************************************************************)
\* a closure that counts the attempt before it reads the flag
WlfiCheckCountFirst(t) ==
    /\ prog = "create2-miner-wlfi"
    /\ tpc[t] = "check"
    /\ attempts' = attempts + 1
    /\ IF found
       THEN ReturnNone(t)
       ELSE /\ Goto(t, "match")
            /\ UNCHANGED locals
    /\ UNCHANGED <<cfgVars, found, taken, mainVars, printed,
                   repVars, visitHist, foundHist>>

WlfiCheck(t) ==
    /\ prog = "create2-miner-wlfi"
    /\ tpc[t] = "check"
    /\ IF found
       THEN ReturnNone(t)
       ELSE /\ Goto(t, "count")
            /\ UNCHANGED locals
    /\ UNCHANGED <<cfgVars, found, attempts, taken, mainVars, printed,
                   repVars, visitHist, foundHist>>

WlfiCount(t) ==
    /\ prog = "create2-miner-wlfi"
    /\ tpc[t] = "count"
    /\ attempts' = attempts + 1
    /\ Goto(t, "match")
    /\ UNCHANGED <<cfgVars, found, taken, titem, salt_value,
                   local_attempts, address, mainVars, printed, repVars,
                   visitHist, foundHist>>

WlfiMatch(t) ==
    /\ prog = "create2-miner-wlfi"
    /\ tpc[t] = "match"
    /\ LET salt == titem[t]
           addr == wlfi_compute_create2_address(salt)
       IN  /\ Visit(t, salt)
           /\ IF wlfi_matches(addr)
              THEN /\ StoreFound(t)
                   /\ Goto(t, "report")
                   /\ address' = [address EXCEPT ![t] = addr]
                   /\ UNCHANGED <<titem, salt_value, local_attempts>>
              ELSE /\ ReturnNone(t)
                   /\ UNCHANGED <<found, foundHist>>
    /\ UNCHANGED <<cfgVars, attempts, taken, mainVars, printed, repVars>>

\* pb.finish_with_message("Found!"); println!(.., attempts.load(..)); true
WlfiReport(t) ==
    /\ prog = "create2-miner-wlfi"
    /\ tpc[t] = "report"
    /\ printed' = printed \cup
          {[item |-> titem[t], salt |-> SaltOf(titem[t]),
            address |-> address[t], extra |-> attempts]}
    /\ ReturnSome(t, SaltOf(titem[t]), address[t], attempts)
    /\ UNCHANGED <<cfgVars, found, attempts, taken, mainVars, repVars,
                   visitHist, foundHist>>

\* if !found.load(..) { println!("Mining stopped without finding address") }
WlfiFinish ==
    /\ prog = "create2-miner-wlfi"
    /\ mainpc = "returned"
    /\ total_attempts' = total_attempts
    /\ mainpc' = "finished"
    /\ UNCHANGED result
    /\ UNCHANGED <<cfgVars, found, attempts, taken, rfound, results, tpc,
                   titem, salt_value, local_attempts, address, printed,
                   repVars, visitHist, foundHist>>

(***************************************************************************)
(* vanity-registry, all-contracts-real-deployer: find_vanity_full_pattern  *)
(* and find_vanity_partial_pattern.                                        *)
(***************************************************************************)
\* a closure that tests the flag the wrong way round
FullCheckInverted(t) ==
    /\ prog = "registry-full"
    /\ tpc[t] = "check"
    /\ IF ~found
       THEN ReturnNone(t)
       ELSE /\ Goto(t, "count")
            /\ UNCHANGED locals
    /\ UNCHANGED <<cfgVars, found, attempts, taken, mainVars, printed,
                   repVars, visitHist, foundHist>>

FullCheck(t) ==
    /\ prog = "registry-full"
    /\ tpc[t] = "check"
    /\ IF found
       THEN ReturnNone(t)
       ELSE /\ Goto(t, "count")
            /\ UNCHANGED locals
    /\ UNCHANGED <<cfgVars, found, attempts, taken, mainVars, printed,
                   repVars, visitHist, foundHist>>

\* a worker that stores the index of its candidate in the shared counter
FullCountStore(t) ==
    /\ prog = "registry-full"
    /\ tpc[t] = "count"
    /\ attempts' = titem[t]
    /\ Goto(t, "match")
    /\ UNCHANGED <<cfgVars, found, taken, titem, salt_value,
                   local_attempts, address, mainVars, printed, repVars,
                   visitHist, foundHist>>

FullCount(t) ==
    /\ prog = "registry-full"
    /\ tpc[t] = "count"
    /\ attempts' = attempts + 1
    /\ Goto(t, "match")
    /\ UNCHANGED <<cfgVars, found, taken, titem, salt_value,
                   local_attempts, address, mainVars, printed, repVars,
                   visitHist, foundHist>>

FullMatch(t) ==
    /\ prog = "registry-full"
    /\ tpc[t] = "match"
    /\ LET i == titem[t]
           salt_32 == Zeros(24) \o to_be_bytes(i)
           addr == reg_calculate_create2_address(REG_DEPLOYER, salt_32,
                                                 REG_INIT_CODE_HASH)
       IN  /\ Visit(t, i)
           /\ IF full_pattern(addr)
              THEN /\ StoreFound(t)
                   /\ ReturnSome(t, salt_32, addr, i)
              ELSE /\ ReturnNone(t)
                   /\ UNCHANGED <<found, foundHist>>
    /\ UNCHANGED <<cfgVars, attempts, taken, mainVars, printed, repVars>>

\* let total_attempts = attempts.load(..);
\* if let Some(..) = result { VanityResult { .. } } else { panic!(..) }
FullFinish ==
    /\ prog = "registry-full"
    /\ mainpc = "returned"
    /\ total_attempts' = attempts
    /\ mainpc' = IF result = NoResult THEN "panicked" ELSE "finished"
    /\ UNCHANGED result
    /\ UNCHANGED <<cfgVars, found, attempts, taken, rfound, results, tpc,
                   titem, salt_value, local_attempts, address, printed,
                   repVars, visitHist, foundHist>>

PartialCheck(t) ==
    /\ prog = "registry-partial"
    /\ tpc[t] = "check"
    /\ IF found
       THEN ReturnNone(t)
       ELSE /\ Goto(t, "count")
            /\ UNCHANGED locals
    /\ UNCHANGED <<cfgVars, found, attempts, taken, mainVars, printed,
                   repVars, visitHist, foundHist>>

PartialCount(t) ==
    /\ prog = "registry-partial"
    /\ tpc[t] = "count"
    /\ attempts' = attempts + 1
    /\ Goto(t, "match")
    /\ UNCHANGED <<cfgVars, found, taken, titem, salt_value,
                   local_attempts, address, mainVars, printed, repVars,
                   visitHist, foundHist>>

PartialMatch(t) ==
    /\ prog = "registry-partial"
    /\ tpc[t] = "match"
    /\ LET i == titem[t]
           salt_32 == Zeros(24) \o to_be_bytes(i)
           addr == reg_calculate_create2_address(REG_DEPLOYER, salt_32,
                                                 REG_INIT_CODE_HASH)
       IN  /\ Visit(t, i)
           /\ IF partial_pattern(addr)
              THEN /\ StoreFound(t)
                   /\ ReturnSome(t, salt_32, addr, i)
              ELSE /\ ReturnNone(t)
                   /\ UNCHANGED <<found, foundHist>>
    /\ UNCHANGED <<cfgVars, attempts, taken, mainVars, printed, repVars>>

\* let total_attempts = attempts.load(..);
\* if let Some(..) = result { VanityResult { .. } } else { panic!(..) }
PartialFinish ==
    /\ prog = "registry-partial"
    /\ mainpc = "returned"
    /\ total_attempts' = attempts
    /\ mainpc' = IF result = NoResult THEN "panicked" ELSE "finished"
    /\ UNCHANGED result
    /\ UNCHANGED <<cfgVars, found, attempts, taken, rfound, results, tpc,
                   titem, salt_value, local_attempts, address, printed,
                   repVars, visitHist, foundHist>>

(***************************************************************************)
(* vanity-rust: find_map_any over (0..1_000_000_000u64), a random salt per *)
(* item.                                                                   *)
(***************************************************************************)
RustCheck(t) ==
    /\ prog = "vanity-rust"
    /\ tpc[t] = "check"
    /\ IF found
       THEN ReturnNone(t)
       ELSE /\ Goto(t, "eval")
            /\ UNCHANGED locals
    /\ UNCHANGED <<cfgVars, found, attempts, taken, mainVars, printed,
                   repVars, visitHist, foundHist>>

\* let salt: [u8; 32] = rng.gen(): one of the salts the model draws from
RustEval(t) ==
    /\ prog = "vanity-rust"
    /\ tpc[t] = "eval"
    /\ \E draw \in RandomDraws :
          /\ salt_value' = [salt_value EXCEPT ![t] = draw]
          /\ address' = [address EXCEPT ![t] =
                create2_address(RUST_FACTORY, SaltOf(draw), RUST_INIT_CODE_HASH)]
          /\ Visit(t, draw)
    /\ attempts' = attempts + 1
    /\ Goto(t, "match")
    /\ UNCHANGED <<cfgVars, found, taken, titem, local_attempts, mainVars,
                   printed, repVars, foundHist>>

RustMatch(t) ==
    /\ prog = "vanity-rust"
    /\ tpc[t] = "match"
    /\ IF rust_matches(address[t])
       THEN /\ StoreFound(t)
            /\ ReturnSome(t, SaltOf(salt_value[t]), address[t], 0)
       ELSE /\ ReturnNone(t)
            /\ UNCHANGED <<found, foundHist>>
    /\ UNCHANGED <<cfgVars, attempts, taken, mainVars, printed, repVars,
                   visitHist>>

\* let total_attempts = counter.load(..); "FOUND!" or "Not found after .."
RustFinish ==
    /\ prog = "vanity-rust"
    /\ mainpc = "returned"
    /\ total_attempts' = attempts
    /\ mainpc' = "finished"
    /\ UNCHANGED result
    /\ UNCHANGED <<cfgVars, found, attempts, taken, rfound, results, tpc,
                   titem, salt_value, local_attempts, address, printed,
                   repVars, visitHist, foundHist>>

(***************************************************************************)
(* vanity-keygen: one worker loop per core, a fresh keypair per iteration. *)
(***************************************************************************)
\* a worker loop that never reads the flag
KeygenCheckNoTest(t) ==
    /\ prog = "vanity-keygen"
    /\ tpc[t] = "check"
    /\ Len(visited[titem[t]]) < MaxDraws
    /\ Goto(t, "eval")
    /\ UNCHANGED locals
    /\ UNCHANGED <<cfgVars, found, attempts, taken, mainVars, printed,
                   repVars, visitHist, foundHist>>

KeygenCheck(t) ==
    /\ prog = "vanity-keygen"
    /\ tpc[t] = "check"
    /\ IF found
       THEN ReturnNone(t)
       ELSE /\ Len(visited[titem[t]]) < MaxDraws
            /\ Goto(t, "eval")
            /\ UNCHANGED locals
    /\ UNCHANGED <<cfgVars, found, attempts, taken, mainVars, printed,
                   repVars, visitHist, foundHist>>

\* let keypair = Keypair::new(); let pubkey = keypair.pubkey().to_string();
\* let count = attempts.fetch_add(1, ..)
KeygenEval(t) ==
    /\ prog = "vanity-keygen"
    /\ tpc[t] = "eval"
    /\ \E keypair \in RandomDraws :
          /\ salt_value' = [salt_value EXCEPT ![t] = keypair]
          /\ address' = [address EXCEPT ![t] = pubkey(keypair)]
          /\ Visit(t, keypair)
    /\ attempts' = attempts + 1
    /\ Goto(t, "match")
    /\ UNCHANGED <<cfgVars, found, taken, titem, local_attempts, mainVars,
                   printed, repVars, foundHist>>

\* a worker whose loop body ends the closure on a keypair that does not match
KeygenMatchOnce(t) ==
    /\ prog = "vanity-keygen"
    /\ tpc[t] = "match"
    /\ IF keygen_matches(address[t])
       THEN /\ StoreFound(t)
            /\ ReturnSome(t, salt_value[t], address[t], 0)
       ELSE /\ ReturnNone(t)
            /\ UNCHANGED <<found, foundHist>>
    /\ UNCHANGED <<cfgVars, attempts, taken, mainVars, printed, repVars,
                   visitHist>>

KeygenMatch(t) ==
    /\ prog = "vanity-keygen"
    /\ tpc[t] = "match"
    /\ IF keygen_matches(address[t])
       THEN /\ StoreFound(t)
            /\ ReturnSome(t, salt_value[t], address[t], 0)
       ELSE /\ Goto(t, "check")
            /\ UNCHANGED <<found, foundHist, locals>>
    /\ UNCHANGED <<cfgVars, attempts, taken, mainVars, printed, repVars,
                   visitHist>>

\* if let Some(keypair) = result { .. attempts.load(..) .. } else { .. }
KeygenFinish ==
    /\ prog = "vanity-keygen"
    /\ mainpc = "returned"
    /\ total_attempts' = IF result = NoResult THEN total_attempts ELSE attempts
    /\ mainpc' = "finished"
    /\ UNCHANGED result
    /\ UNCHANGED <<cfgVars, found, attempts, taken, rfound, results, tpc,
                   titem, salt_value, local_attempts, address, printed,
                   repVars, visitHist, foundHist>>

(***************************************************************************)
(* ProgressReporter: the detached thread spawned before the search.        *)
(* The thread is followed to the end of its own loop; the exit of the      *)
(* process, which ends a detached thread wherever it is, is no step of it. *)
(***************************************************************************)
\* the reporters that test the flag after each sleep (vanity-gen,
\* create2-miner, vanity-miner, vanity-registry)
ReporterChecks(p) ==
    p \in {"vanity-gen", "create2-miner", "vanity-miner", "registry-full"}

\* sleep(..); if found_clone.load(Ordering::Relaxed) { break; }
ReporterWake ==
    /\ rpc = "sleep"
    /\ ReporterChecks(prog)
    /\ rpc' = IF found THEN "exited" ELSE "report"
    /\ UNCHANGED last_attempts
    /\ UNCHANGED <<cfgVars, found, attempts, taken, rfound, results, tpc,
                   titem, salt_value, local_attempts, address,
                   mainVars, printed, visitHist, foundHist>>

\* create2-miner-wlfi: sleep(..) and no test of the flag
WlfiReporterWake ==
    /\ rpc = "sleep"
    /\ prog = "create2-miner-wlfi"
    /\ rpc' = "report"
    /\ UNCHANGED last_attempts
    /\ UNCHANGED <<cfgVars, found, attempts, taken, rfound, results, tpc,
                   titem, salt_value, local_attempts, address,
                   mainVars, printed, visitHist, foundHist>>

\* a reporter that starts the counter again after each report
ReporterReportAndReset ==
    /\ rpc = "report"
    /\ last_attempts' = IF prog = "registry-full" THEN attempts ELSE last_attempts
    /\ rpc' = "sleep"
    /\ attempts' = 0
    /\ UNCHANGED <<cfgVars, found, taken, rfound, results, tpc,
                   titem, salt_value, local_attempts, address,
                   mainVars, printed, visitHist, foundHist>>

\* let count = attempts_clone.load(Ordering::Relaxed); println!(..);
\* vanity-registry also keeps the reading: last_attempts = current
ReporterReport ==
    /\ rpc = "report"
    /\ contract <= 1
    /\ last_attempts' = IF prog = "registry-full" THEN attempts ELSE last_attempts
    /\ rpc' = "sleep"
    /\ UNCHANGED <<cfgVars, found, attempts, taken, rfound, results, tpc,
                   titem, salt_value, local_attempts, address,
                   mainVars, printed, visitHist, foundHist>>

(***************************************************************************)
(* The specifications.                                                     *)
(***************************************************************************)
Worker(t) ==
    \/ \E i \in ItemsOf(prog, threads) : Take(t, i)
    \/ Retire(t)
    \/ GenCheck(t) \/ GenEval(t) \/ GenFlush(t)
    \/ C2Check(t) \/ C2Eval(t) \/ C2Match(t)
    \/ MinerCheck(t) \/ MinerEval(t) \/ MinerMatch(t)
    \/ MinerReport(t) \/ WlfiCheck(t) \/ WlfiCount(t)
    \/ WlfiMatch(t) \/ WlfiReport(t) \/ FullCheck(t)
    \/ FullCount(t) \/ FullMatch(t) \/ PartialCheck(t)
    \/ PartialCount(t) \/ PartialMatch(t) \/ RustCheck(t)
    \/ RustEval(t) \/ RustMatch(t) \/ KeygenCheck(t)
    \/ KeygenEval(t) \/ KeygenMatch(t)

Main ==
    \/ SearchReturns
    \/ GenFinish \/ C2Finish \/ MinerFinish \/ WlfiFinish
    \/ FullFinish \/ PartialFinish \/ RustFinish \/ KeygenFinish

Reporter == ReporterWake \/ WlfiReporterWake \/ ReporterReport

Next ==
    \/ \E t \in Threads : \E i \in ItemsOf(prog, threads) : Take(t, i)
    \/ \E t \in Threads : Retire(t)
    \/ \E t \in Threads : GenCheck(t)
    \/ \E t \in Threads : GenEval(t)
    \/ \E t \in Threads : GenFlush(t)
    \/ \E t \in Threads : C2Check(t)
    \/ \E t \in Threads : C2Eval(t)
    \/ \E t \in Threads : C2Match(t)
    \/ \E t \in Threads : MinerCheck(t)
    \/ \E t \in Threads : MinerEval(t)
    \/ \E t \in Threads : MinerMatch(t)
    \/ \E t \in Threads : MinerReport(t)
    \/ \E t \in Threads : WlfiCheck(t)
    \/ \E t \in Threads : WlfiCount(t)
    \/ \E t \in Threads : WlfiMatch(t)
    \/ \E t \in Threads : WlfiReport(t)
    \/ \E t \in Threads : FullCheck(t)
    \/ \E t \in Threads : FullCount(t)
    \/ \E t \in Threads : FullMatch(t)
    \/ \E t \in Threads : PartialCheck(t)
    \/ \E t \in Threads : PartialCount(t)
    \/ \E t \in Threads : PartialMatch(t)
    \/ \E t \in Threads : RustCheck(t)
    \/ \E t \in Threads : RustEval(t)
    \/ \E t \in Threads : RustMatch(t)
    \/ \E t \in Threads : KeygenCheck(t)
    \/ \E t \in Threads : KeygenEval(t)
    \/ \E t \in Threads : KeygenMatch(t)
    \/ SearchReturns
    \/ GenFinish
    \/ C2Finish
    \/ MinerFinish
    \/ WlfiFinish
    \/ FullFinish
    \/ PartialFinish
    \/ RustFinish
    \/ KeygenFinish
    \/ ReporterWake
    \/ WlfiReporterWake
    \/ ReporterReport

Spec == Init /\ [][Next]_vars

\* every thread of the process is scheduled again and again
FairSpec ==
    /\ Spec
    /\ \A t \in 1..MaxPool : WF_vars(t \in Threads /\ Worker(t))
    /\ WF_vars(Main)
    /\ WF_vars(Reporter)

(***************************************************************************)
(* The properties.  What they speak of: the digest a program derives from  *)
(* a candidate counter, its pattern test, and the evaluations recorded in  *)
(* `visited`.                                                              *)
(***************************************************************************)
\* the derivation of program p, as it is configured, applied to a salt
Derivation(p, salt) ==
    CASE p = "vanity-gen" ->
            calculate_create2_address(GEN_FACTORY, salt, GEN_INIT_CODE_HASH)
      [] p = "create2-miner" ->
            compute_create2_address(CREATE2_FACTORY, salt, INIT_CODE_HASH)
      [] p = "vanity-miner" ->
            miner_compute_create2_address(CREATE2_FACTORY, salt,
                                          MINER_INIT_CODE_HASH)
      [] p \in {"registry-full", "registry-partial"} ->
            reg_calculate_create2_address(REG_DEPLOYER, salt, REG_INIT_CODE_HASH)
      [] OTHER -> create2_address(RUST_FACTORY, salt, RUST_INIT_CODE_HASH)

\* the digest program p derives from candidate c
DigestOf(p, c) ==
    CASE p = "vanity-keygen" -> pubkey(c)
      [] p = "create2-miner-wlfi" -> wlfi_compute_create2_address(c)
      [] OTHER -> Derivation(p, SaltOf(c))

\* the target pattern of program p
Satisfies(p, digest) ==
    CASE p = "vanity-gen" -> matches_pattern(digest, GEN_PREFIX, GEN_SUFFIX)
      [] p = "create2-miner" -> matches_prefix(digest, TARGET_PREFIX)
      [] p = "vanity-miner" -> miner_matches(digest)
      [] p = "create2-miner-wlfi" -> wlfi_matches(digest)
      [] p = "registry-full" -> full_pattern(digest)
      [] p = "registry-partial" -> partial_pattern(digest)
      [] p = "vanity-rust" -> rust_matches(digest)
      [] OTHER -> keygen_matches(digest)

\* the evaluations so far: <<item, k>> is the k-th derivation of item's closure
Evaluated ==
    { e \in (DOMAIN visited) \X (1..(MaxIter + MaxDraws)) :
         e[2] <= Len(visited[e[1]]) }

\* how often candidate c has been evaluated, all workers together
Evaluations(c) ==
    Cardinality({ e \in Evaluated : visited[e[1]][e[2]] = c })

\* C1: vanity-gen with W workers, every W and K: once each worker has done K
\* iterations and no match has stopped the run, every counter of [0, W*K)
\* has been evaluated exactly once by the workers together.
C1_PartitionCoverage ==
    (prog = "vanity-gen" /\ ~found) =>
        \A K \in 1..MaxIter :
            (\A w \in 0..(threads - 1) : Len(visited[w]) = K) =>
                \A c \in 0..(threads * K - 1) : Evaluations(c) = 1

\* the digest of a returned candidate: the salt, or vanity-keygen's keypair
ReturnedDigest(p, r) ==
    IF p = "vanity-keygen" THEN pubkey(r.salt) ELSE Derivation(p, r.salt)

\* C2: every MatchResult a search returns is a true positive: its digest is
\* the configured derivation applied to its candidate, and the digest
\* satisfies the target pattern.
C2_TruePositive ==
    IF prog \in {"vanity-miner", "create2-miner-wlfi"}
    THEN \* find_any returns a bool, the match is the one printed
         \A r \in printed :
            /\ r.salt = SaltOf(r.item)
            /\ r.address = DigestOf(prog, r.item)
            /\ Satisfies(prog, r.address)
    ELSE \A r \in result :
            /\ r.address = ReturnedDigest(prog, r)
            /\ Satisfies(prog, r.address)

\* a vanity-gen run has ended with the match of a worker that had evaluated
\* another candidate before
C2_Witness ==
    /\ prog = "vanity-gen"
    /\ mainpc = "finished"
    /\ \E r \in result : r.salt # SaltOf(r.item * ThreadOffset)

\* C3: vanity-gen and create2-miner return at most one MatchResult per run,
\* one of the matches the workers computed, also when several workers
\* computed a match between testing FoundFlag and setting it.
C3_AtMostOneResult ==
    prog \in {"vanity-gen", "create2-miner"} =>
        /\ Cardinality(result) <= 1
        /\ result \subseteq results

\* two workers of a vanity-gen run returned a match each, and main is through
C3_Witness ==
    /\ prog = "vanity-gen"
    /\ mainpc = "finished"
    /\ Cardinality(results) >= 2
    /\ result # NoResult

\* some worker has derived a digest that satisfies the pattern
MatchComputed ==
    \E e \in Evaluated : Satisfies(prog, DigestOf(prog, visited[e[1]][e[2]]))

\* the counter of item i was derived, once, and did not match
DerivedNoMatch(i) ==
    /\ visited[i] = <<i>>
    /\ ~Satisfies(prog, DigestOf(prog, i))

\* C4: in create2-miner and the vanity-registry searches, the search returns
\* Some whenever a worker computed a matching candidate, and None only if
\* every counter of the range was derived and none matched.
C4_SomeOnMatchNoneOnExhaustion ==
    ( /\ prog \in {"create2-miner", "registry-full", "registry-partial"}
      /\ mainpc # "searching" ) =>
        /\ MatchComputed => result # NoResult
        /\ result = NoResult =>
              \A i \in ItemsOf(prog, threads) : DerivedNoMatch(i)

\* find_vanity_full_pattern has returned None
C4_Witness ==
    /\ prog = "registry-full"
    /\ mainpc = "returned"
    /\ result = NoResult
    /\ \A i \in ItemsOf(prog, threads) : DerivedNoMatch(i)

C6_CleanExhaustion ==
    ( /\ mainpc # "searching"
      /\ result = NoResult
      /\ \A i \in ItemsOf(prog, threads) : visited[i] # <<>> ) =>
        mainpc # "panicked"

\* what a worker adds to AttemptCounter at once
BatchOf(p) == IF p = "vanity-gen" THEN BatchSize ELSE 1

\* C7: from the moment FoundFlag becomes true, AttemptCounter grows by no
\* more than one batch (vanity-gen's batch; 1 in the miners that count every
\* candidate) for each worker that was active at that moment.
C7_BoundedOvershoot ==
    found => attempts - attemptsAtFound <= BatchOf(prog) * activeAtFound

\* a vanity-gen worker has flushed a whole batch after the flag was set
C7_Witness ==
    /\ prog = "vanity-gen"
    /\ found
    /\ activeAtFound >= 2
    /\ attempts - attemptsAtFound >= BatchSize

\* C8: vanity-gen, after a run that ended with a match: the total of
\* attempts it reports is exactly the number of candidates its workers
\* evaluated.
C8_ExactTotal ==
    ( /\ prog = "vanity-gen"
      /\ mainpc = "finished"
      /\ result # NoResult ) => total_attempts = Cardinality(Evaluated)

\* pool thread t is in a closure whose last derived digest satisfies the
\* pattern, and the store of the flag is its own
JustMatched(t) ==
    /\ tpc[t] \notin {"idle", "done"}
    /\ visited'[titem[t]] # <<>>
    /\ LET c == visited'[titem[t]][Len(visited'[titem[t]])]
       IN  Satisfies(prog, DigestOf(prog, c))
    /\ foundBy' = {titem[t]}

\* C9: FoundFlag starts false, is never false again once it is true, and
\* becomes true only in a step of a worker that has just computed a
\* matching candidate.
C9_WriteOnceTrue ==
    /\ found = FALSE
    /\ [][ /\ found => found'
           /\ (~found /\ found') => \E t \in Threads : JustMatched(t) ]_vars

\* a run has ended with the flag set
C9_Witness ==
    /\ found
    /\ mainpc = "finished"
    /\ \A t \in Threads : tpc[t] = "done"

\* C10: in every miner with a progress reporter, the reporter leaves its
\* loop some time after FoundFlag has become true.
C10_ReporterStops ==
    (HasReporter(prog) /\ found) ~> (rpc = "exited")

(***************************************************************************)
(* The matchers and the derivations called on their own: the arguments are *)
(* drawn from samples, one step applies every variant to them.             *)
(***************************************************************************)
\* everything a search changes
searchVars ==
    << found, attempts, taken, rfound, results, tpc, titem, salt_value,
       local_attempts, address, mainpc, result, printed, total_attempts,
       rpc, last_attempts, visited, foundBy, attemptsAtFound, activeAtFound,
       derivedAfterFound >>

\* sample values of the bytes the patterns look at (0x47, 0x46, 0x74; 0x0e,
\* 0xe0, 0x1e, 0xfe; 0xa9, 0x9a; 0x1e, 0xe1) and of the 16 bytes in between
SampleByte0 == {71, 70, 116}

SampleByte17 == {14, 224, 30, 254}

SampleByte18 == {169, 154}

SampleByte19 == {30, 225}

SampleFill == {0, 255, 71}

SampleAddresses ==
    { [i \in 1..20 |-> IF i = 1 THEN b0
                       ELSE IF i = 18 THEN b17
                       ELSE IF i = 19 THEN b18
                       ELSE IF i = 20 THEN b19 ELSE f] :
        b0 \in SampleByte0, b17 \in SampleByte17, b18 \in SampleByte18,
        b19 \in SampleByte19, f \in SampleFill }

\* sample --prefix / --suffix arguments of vanity-gen
SamplePrefixes == { <<"4", "7">>, <<>>, <<"4", "7", "0", "0">> }

SampleSuffixes ==
    { <<"0", "E", "A", "9", "1", "E">>, <<"0", "e", "a", "9", "1", "e">>,
      <<"0", "e", "A", "9", "1", "E">>, <<"e", "a", "9", "1", "e">>,
      <<"1", "e">>, <<>> }

\* sample candidate counters: 258 is 0x0102
SampleCounters == {0, 1, 258}

MatchCalls ==
    [kind : {"match"}, address : SampleAddresses,
     prefix : SamplePrefixes, suffix : SampleSuffixes]

DeriveCalls ==
    [kind : {"derive"}, factory : { FactoryOf(p) : p \in Programs },
     n : SampleCounters, init_code_hash : { InitHashOf(p) : p \in Programs }]

\* sample candidate counters for the salts: one to four significant bytes,
\* the start of vanity-gen's second worker, the largest value TLC holds
SampleSaltCounters ==
    {0, 1, 255, 256, 258, 65535, 65536, 1000000, 16777216, 2147483647}

SaltCalls == [kind : {"salt"}, n : SampleSaltCounters]

\* dst[start..start + src.len()].copy_from_slice(src)
copy_from_slice(dst, start, src) ==
    [i \in 1..Len(dst) |->
        IF i > start /\ i <= start + Len(src) THEN src[i - start] ELSE dst[i]]

\* create2-miner: let mut salt = [0u8; 32]; salt[24..].copy_from_slice(..)
c2_salt(nonce) == copy_from_slice(Zeros(32), 24, to_be_bytes(nonce))

\* vanity-miner: salt[24..32].copy_from_slice(&i.to_be_bytes())
miner_salt(i) == copy_from_slice(Zeros(32), 24, to_be_bytes(i))

\* create2-miner-wlfi: what the hasher is fed between the factory and the
\* init code hash: update(&[0u8; 24]); update(&salt.to_be_bytes())
wlfi_salt(salt) == Zeros(24) \o to_be_bytes(salt)

\* a salt with the counter in its first eight bytes
salt_counter_first(i) ==
    LET salt == to_be_bytes(i)
    IN  copy_from_slice(Zeros(32), 0, salt)

\* vanity-registry: let salt = i.to_be_bytes(); salt_32[24..].copy_from_slice
reg_salt(i) ==
    LET salt == to_be_bytes(i)
    IN  copy_from_slice(Zeros(32), 24, salt)

PureInit ==
    /\ fin \in MatchCalls \cup DeriveCalls \cup SaltCalls
    /\ fout = NoCall
    /\ prog \in IF fin.kind = "derive" THEN Programs ELSE {"vanity-gen"}
    /\ hits \in IF fin.kind = "derive" THEN SUBSET SampleCounters ELSE {{}}
    /\ pool = 1
    /\ threads = 1
    /\ SearchInit
    /\ args = GenArgs
    /\ parsed = Parsed
    /\ budget = MaxIter
    /\ NoContracts
    /\ NoChain

\* every matcher applied to fin.address
ApplyMatchers ==
    /\ fin.kind = "match"
    /\ fout = NoCall
    /\ fout' = [gen |-> matches_pattern(fin.address, fin.prefix, fin.suffix),
                c2 |-> matches_prefix(fin.address, TARGET_PREFIX),
                miner |-> miner_matches(fin.address),
                wlfi |-> wlfi_matches(fin.address),
                full |-> full_pattern(fin.address),
                partial |-> partial_pattern(fin.address),
                rust |-> rust_matches(fin.address)]
    /\ UNCHANGED <<prog, threads, pool, hits, fin, args, parsed, budget, allVars,
                   chainVars, searchVars>>

\* every derivation applied to (fin.factory, the salt of fin.n,
\* fin.init_code_hash); create2-miner-wlfi's takes the counter alone
ApplyDerivations ==
    /\ fin.kind = "derive"
    /\ fout = NoCall
    /\ LET salt == SaltOf(fin.n)
       IN  fout' =
             [gen |-> calculate_create2_address(fin.factory, salt,
                                                fin.init_code_hash),
              c2 |-> compute_create2_address(fin.factory, salt,
                                             fin.init_code_hash),
              miner |-> miner_compute_create2_address(fin.factory, salt,
                                                      fin.init_code_hash),
              reg |-> reg_calculate_create2_address(fin.factory, salt,
                                                    fin.init_code_hash),
              rust |-> create2_address(fin.factory, salt, fin.init_code_hash),
              wlfi |-> wlfi_compute_create2_address(fin.n)]
    /\ UNCHANGED <<prog, threads, pool, hits, fin, args, parsed, budget, allVars,
                   chainVars, searchVars>>

\* the salt every counter-based miner builds from the counter fin.n
ApplySalts ==
    /\ fin.kind = "salt"
    /\ fout = NoCall
    /\ fout' = [gen |-> SaltOf(fin.n),
                c2 |-> c2_salt(fin.n),
                miner |-> miner_salt(fin.n),
                wlfi |-> wlfi_salt(fin.n),
                reg |-> reg_salt(fin.n)]
    /\ UNCHANGED <<prog, threads, pool, hits, fin, args, parsed, budget, allVars,
                   chainVars, searchVars>>

PureNext == ApplyMatchers \/ ApplyDerivations \/ ApplySalts

PureSpec == PureInit /\ [][PureNext]_vars

\* the byte-form pattern 0x47 .. 0x0ea91e, spelled out
BytePattern(a) ==
    a[1] = 71 /\ a[18] = 14 /\ a[19] = 169 /\ a[20] = 30

\* the byte-form matchers of the source, by the name fout gives their verdict
ByteMatcher(name, a) ==
    CASE name = "miner" -> miner_matches(a)
      [] name = "wlfi" -> wlfi_matches(a)
      [] OTHER -> full_pattern(a)

\* C11: the byte-form matchers for prefix 0x47 and suffix 0x0ea91e
\* (vanity-miner, create2-miner-wlfi, vanity-registry's full pattern) accept
\* an address iff address[0] = 0x47, address[17] = 0x0e, address[18] = 0xa9
\* and address[19] = 0x1e; changing one of the four bytes of a matching
\* address makes it not match, and no other byte changes the verdict.
C11_ByteMatcherExact ==
    (fout # NoCall /\ fin.kind = "match") =>
        \A name \in {"miner", "wlfi", "full"} :
            /\ fout[name] = BytePattern(fin.address)
            /\ \A i \in 1..20, b \in Byte :
                  LET changed == [fin.address EXCEPT ![i] = b]
                  IN  IF i \in {1, 18, 19, 20}
                      THEN (fout[name] /\ b # fin.address[i]) =>
                              ~ByteMatcher(name, changed)
                      ELSE ByteMatcher(name, changed) = fout[name]

\* the matchers have accepted an address whose other bytes are not zero
C11_Witness ==
    /\ fout # NoCall
    /\ fin.kind = "match"
    /\ fout.miner /\ fout.wlfi /\ fout.full
    /\ fin.address[5] = 255

\* the value of a hex digit of either case
HexValue(c) ==
    CASE c = "0" -> 0 [] c = "1" -> 1 [] c = "2" -> 2 [] c = "3" -> 3
      [] c = "4" -> 4 [] c = "5" -> 5 [] c = "6" -> 6 [] c = "7" -> 7
      [] c = "8" -> 8 [] c = "9" -> 9
      [] c \in {"a", "A"} -> 10 [] c \in {"b", "B"} -> 11
      [] c \in {"c", "C"} -> 12 [] c \in {"d", "D"} -> 13
      [] c \in {"e", "E"} -> 14 [] c \in {"f", "F"} -> 15

\* the bytes a hex string of even length denotes
BytesOf(str) ==
    [k \in 1..(Len(str) \div 2) |->
        16 * HexValue(str[2 * k - 1]) + HexValue(str[2 * k])]

\* C12: vanity-gen's matches_pattern on hex strings of either letter case
\* gives the verdict of the byte-form check on the bytes the strings
\* denote; with prefix "47" and suffix "0EA91E" that is the check
\* address[0] = 0x47, address[17..20] = 0e a9 1e of the byte-form matchers.
C12_StringAgreesWithBytes ==
    ( /\ fout # NoCall
      /\ fin.kind = "match"
      /\ Len(fin.prefix) % 2 = 0
      /\ Len(fin.suffix) % 2 = 0 ) =>
        /\ fout.gen = ( /\ starts_with(fin.address, BytesOf(fin.prefix))
                        /\ ends_with(fin.address, BytesOf(fin.suffix)) )
        /\ ( /\ BytesOf(fin.prefix) = <<71>>
             /\ BytesOf(fin.suffix) = <<14, 169, 30>> ) =>
                fout.gen = fout.miner

\* an upper-case suffix has matched
C12_Witness ==
    /\ fout # NoCall
    /\ fin.kind = "match"
    /\ fin.prefix = <<"4", "7">>
    /\ fin.suffix = <<"0", "E", "A", "9", "1", "E">>
    /\ fout.gen
    /\ fout.miner

\* C13: vanity-rust accepts an address iff address[0] = 0x47, the low
\* nibble of address[17] is 0xe, address[18] = 0xa9 and address[19] = 0x1e;
\* the high nibble of address[17] never changes the verdict, and the suffix
\* part of the verdict is the string check "hex(address) ends with ea91e".
C13_NibbleSuffix ==
    (fout # NoCall /\ fin.kind = "match") =>
        LET a == fin.address
        IN  /\ fout.rust = ( /\ a[1] = 71
                             /\ a[18] % 16 = 14
                             /\ a[19] = 169
                             /\ a[20] = 30 )
            /\ \A h \in 0..15 :
                 rust_matches([a EXCEPT ![18] = 16 * h + (a[18] % 16)])
                     = fout.rust
            /\ fout.rust = ( /\ a[1] = 71
                             /\ ends_with(hex_encode(a),
                                          <<"e", "a", "9", "1", "e">>) )

\* an address ending in fea91e was accepted
C13_Witness ==
    /\ fout # NoCall
    /\ fin.kind = "match"
    /\ fin.address[18] = 254
    /\ fout.rust
    /\ ~fout.miner

\* C14: every derivation variant returns bytes 12..31 of the Keccak-256
\* digest of the 85 bytes 0xFF, factory (20), salt (32), init-code hash
\* (32), and nothing else decides its result; create2-miner-wlfi, which
\* writes the salt as 24 zero bytes and the 8 big-endian bytes of its
\* counter, hashes the same 85 bytes as the others do for that salt.
C14_SamePreimage ==
    (fout # NoCall /\ fin.kind = "derive") =>
        LET salt == [j \in 1..32 |->
                        IF j <= 28 THEN 0
                        ELSE (fin.n \div (256 ^ (32 - j))) % 256]
            pre == [i \in 1..85 |->
                        IF i = 1 THEN 255
                        ELSE IF i <= 21 THEN fin.factory[i - 1]
                        ELSE IF i <= 53 THEN salt[i - 21]
                        ELSE fin.init_code_hash[i - 53]]
            digest == Keccak256(pre)
            expected == [i \in 1..20 |-> digest[12 + i]]
        IN  /\ Len(fin.factory) = 20
            /\ Len(fin.init_code_hash) = 32
            /\ fout.gen = expected
            /\ fout.c2 = expected
            /\ fout.miner = expected
            /\ fout.reg = expected
            /\ fout.rust = expected
            /\ ( /\ fin.factory = CREATE2_FACTORY
                 /\ fin.init_code_hash = WLFI_INIT_CODE_HASH ) =>
                    fout.wlfi = expected

\* the counter 258 (salt .. 01 02) derived to a matching address by every
\* variant, create2-miner-wlfi included
C14_Witness ==
    /\ fout # NoCall
    /\ fin.kind = "derive"
    /\ fin.n = 258
    /\ prog = "create2-miner-wlfi"
    /\ fin.factory = CREATE2_FACTORY
    /\ fin.init_code_hash = WLFI_INIT_CODE_HASH
    /\ fout.wlfi[1] = 71
    /\ fout.wlfi = fout.miner
    /\ fout.wlfi = fout.gen

(***************************************************************************)
(* vanity-gen from its command line on.                                    *)
(***************************************************************************)
GoodFactory == hex_encode(GEN_FACTORY)

GoodInitHash == hex_encode(GEN_INIT_CODE_HASH)

\* a good factory with and without 0x, one with a character that is no hex
\* digit, one of 19 bytes, one of odd length
SampleFactories ==
    { GoodFactory,
      <<"0", "x">> \o GoodFactory,
      <<"z", "z">> \o SubSeq(GoodFactory, 3, 40),
      SubSeq(GoodFactory, 1, 38),
      SubSeq(GoodFactory, 1, 39) }

SampleInitHashes ==
    { <<"0", "x">> \o GoodInitHash,
      SubSeq(GoodInitHash, 1, 62),
      <<"g">> \o SubSeq(GoodInitHash, 2, 64) }

\* 47, a prefix that is no hex, a prefix of 41 digits
SamplePatternPrefixes ==
    { GEN_PREFIX, <<"z", "z">>, [i \in 1..41 |-> "0"] }

SamplePatternSuffixes == { GEN_SUFFIX, <<"1", "g">> }

SampleArgs ==
    [factory : SampleFactories, init_hash : SampleInitHashes,
     prefix : SamplePatternPrefixes, suffix : SamplePatternSuffixes]

GenInit ==
    /\ prog = "vanity-gen"
    /\ args \in SampleArgs
    /\ pool \in 1..MaxPool
    /\ threads \in 1..MaxThreads
    /\ hits \in Oracles(prog, threads)
    /\ WorkersInit
    /\ mainpc = "parse_factory"
    /\ rpc = "none"
    /\ fin = NoCall
    /\ fout = NoCall
    /\ parsed = NotParsed
    /\ budget = LongIter
    /\ NoContracts
    /\ NoChain

GenNext ==
    \/ ParseFactory
    \/ ParseInitHash
    \/ EstimateDifficulty
    \/ SpawnReporter
    \/ \E t \in Threads : \E i \in ItemsOf(prog, threads) : Take(t, i)
    \/ \E t \in Threads : Retire(t)
    \/ \E t \in Threads : GenCheck(t)
    \/ \E t \in Threads : GenEval(t)
    \/ \E t \in Threads : GenFlush(t)
    \/ SearchReturns
    \/ GenFinish
    \/ ReporterWake
    \/ ReporterReport

GenSpec == GenInit /\ [][GenNext]_vars

\* a string of hex digits only
IsHex(str) == \A i \in 1..Len(str) : str[i] \in DOMAIN [c \in HexChars |-> 0]

\* the configuration is well formed: factory 20 bytes of hex, init-code
\* hash 32 bytes of hex, both with or without 0x, prefix and suffix hex
\* digits and no longer than the 40 digits of an address
WellFormed(a) ==
    LET f == IF Len(a.factory) >= 2 /\ SubSeq(a.factory, 1, 2) = <<"0", "x">>
             THEN SubSeq(a.factory, 3, Len(a.factory)) ELSE a.factory
        h == IF Len(a.init_hash) >= 2
                  /\ SubSeq(a.init_hash, 1, 2) = <<"0", "x">>
             THEN SubSeq(a.init_hash, 3, Len(a.init_hash)) ELSE a.init_hash
    IN  /\ IsHex(f) /\ Len(f) = 40
        /\ IsHex(h) /\ Len(h) = 64
        /\ IsHex(a.prefix) /\ Len(a.prefix) <= 40
        /\ IsHex(a.suffix) /\ Len(a.suffix) <= 40

\* C15: vanity-gen rejects a malformed configuration (factory, init-code
\* hash, prefix, suffix) before any worker is spawned: no item of the
\* search is ever handed to a pool thread under such a configuration.
C15_RejectsMalformedConfig ==
    ~WellFormed(args) => (taken = {} /\ mainpc \in
        {"parse_factory", "parse_init_hash", "estimate", "panicked"})

\* vanity-gen: the candidate with counter 0 satisfies the pattern of the run
CounterZeroMatches ==
    /\ hex_decode(strip_0x(args.factory)).ok
    /\ hex_decode(strip_0x(args.init_hash)).ok
    /\ matches_pattern(calculate_create2_address(gen_factory, SaltOf(0),
                                                 gen_init_code_hash),
                       args.prefix, args.suffix)

\* C16: if the candidate with counter 0 satisfies the pattern, vanity-gen
\* ends with a match, the match is that of counter 0 or the lowest-counter
\* match the workers returned, and the total it reports is at most
\* threads * BatchSize.
C16_TrivialPatternBound ==
    (mainpc = "finished" /\ CounterZeroMatches) =>
        /\ result # NoResult
        /\ \A r \in result :
              /\ \/ r.salt = SaltOf(0)
                 \/ r \in results /\ \A x \in results : r.item <= x.item
              /\ total_attempts = r.extra
        /\ total_attempts <= threads * BatchSize

\* the same without the bound on the total
C16_LowestMatchReturned ==
    (mainpc = "finished" /\ CounterZeroMatches) =>
        /\ result # NoResult
        /\ \A r \in result :
              /\ \/ r.salt = SaltOf(0)
                 \/ r \in results /\ \A x \in results : r.item <= x.item
              /\ total_attempts = r.extra

(***************************************************************************)
(* eagle-oft-layerzero: the OFT program behind LayerZero.                  *)
(* An instruction is one step: Anchor loads and checks the accounts, the   *)
(* handler runs, and a failure anywhere leaves every account as it was.    *)
(* `ret` keeps the instruction, the keys that signed it, the arguments the *)
(* properties speak of, and the error it ended with.                       *)
(***************************************************************************)
ETHEREUM_EID == 30101

ETHEREUM_SEPOLIA_EID == 40161

MSG_TYPE_SEND == 0

MSG_TYPE_SEND_AND_CALL == 1

\* the largest amount one transfer moves
MaxSupply == 1

\* u64::MAX, the largest value of the totals and of the supply, scaled to
\* the amounts that are moved
U64_MAX == 2

\* u64::checked_add: Some(sum) as {sum}, None as {}
checked_add(a, b) == IF a + b > U64_MAX THEN {} ELSE {a + b}

\* the miners' variables
offChainVars ==
    <<prog, threads, pool, hits, fin, fout, args, parsed, budget, allVars,
      searchVars>>

\* what no instruction of eagle-oft-layerzero touches
notOftVars == <<offChainVars, config, registry_config>>

\* a 32-byte key
Pubkey(n) == [i \in 1..32 |-> n]

ALICE == Pubkey(1)

BOB == Pubkey(2)

ENDPOINT == Pubkey(3)

Keys == {ALICE, BOB, ENDPOINT}

\* the keys that signed a transaction: nobody, or the key the
\* instruction asks a signature of
Signers(k) == {{}, {k}}

\* the keys that ask to act as admin
Admins == {ALICE, BOB}

OFT_MINT == Pubkey(10)

OTHER_MINT == Pubkey(11)

Mints == {OFT_MINT, OTHER_MINT}

\* the OFT contract on the other chain, as bytes32, and a stranger
PEER == Pubkey(20)

STRANGER == Pubkey(21)

Eids == {ETHEREUM_EID, ETHEREUM_SEPOLIA_EID}

\* the endpoint ids the admin registers a peer for
PeerEids == {ETHEREUM_EID}

Amounts == 1..MaxSupply

\* SPL token accounts: two of the OFT mint, one of another mint
TokenAccounts == {"alice_eagle", "bob_eagle", "alice_other"}

TokenOwner(a) == IF a = "bob_eagle" THEN BOB ELSE ALICE

TokenMint(a) == IF a = "alice_other" THEN OTHER_MINT ELSE OFT_MINT

\* u32::to_le_bytes and u8::to_le_bytes
u32_to_le_bytes(n) == [j \in 1..4 |-> (n \div (256 ^ (j - 1))) % 256]

u8_to_le_bytes(n) == <<n>>

\* u64::from_be_bytes, for amounts below 2^31
from_be_bytes(b) ==
    b[5] * 16777216 + b[6] * 65536 + b[7] * 256 + b[8]

\* b"oft_config", b"peer"
OFT_CONFIG_SEED == <<111, 102, 116, 95, 99, 111, 110, 102, 105, 103>>

PEER_SEED == <<112, 101, 101, 114>>

\* Pubkey::create_program_address: the hash of the seeds one after the
\* other; two lists of seeds give one address when their bytes agree
RECURSIVE create_program_address(_)
create_program_address(seeds) ==
    IF seeds = <<>> THEN <<>>
    ELSE Head(seeds) \o create_program_address(Tail(seeds))

\* ctx.bumps: the canonical bump of a list of seeds, the first one tried
find_bump(seeds) == 255

\* the address of an existing PeerConfig account: where set_peer put it
PeerKey(p) ==
    create_program_address(<<PEER_SEED, u32_to_le_bytes(p.eid), <<p.bump>>>>)

encode_oft_message(msg_type, to, amount) ==
    (<<msg_type>> \o to) \o to_be_bytes(amount)

\* a decoder that takes the recipient from the first 32 bytes
decode_oft_message_from_0(message) ==
    IF Len(message) < 41 THEN [err |-> "InvalidMessage"]
    ELSE [err |-> "Ok",
          msg_type |-> At(message, 0),
          to |-> SubSeq(message, 1, 32),
          amount |-> from_be_bytes(SubSeq(message, 34, 41))]

\* Ok((msg_type, to, amount)), or the error
decode_oft_message(message) ==
    IF Len(message) < 41 THEN [err |-> "InvalidMessage"]
    ELSE [err |-> "Ok",
          msg_type |-> At(message, 0),
          to |-> SubSeq(message, 2, 33),
          amount |-> from_be_bytes(SubSeq(message, 34, 41))]

\* the messages an endpoint may deliver: transfers to two recipients,
\* one of the other type, and one that is a byte short
Messages ==
    { encode_oft_message(MSG_TYPE_SEND, to, a) :
        to \in {ALICE, BOB}, a \in Amounts }
    \cup { encode_oft_message(MSG_TYPE_SEND_AND_CALL, ALICE, a) :
             a \in Amounts }
    \cup { SubSeq(encode_oft_message(MSG_TYPE_SEND, ALICE, 1), 1, 40) }

\* Origin { src_eid, sender, nonce }: two messages of the peer, one of a
\* stranger on the peer's chain, one of the peer's address on another chain
Origins ==
    { [src_eid |-> ETHEREUM_EID, sender |-> PEER, nonce |-> 1],
      [src_eid |-> ETHEREUM_EID, sender |-> PEER, nonce |-> 2],
      [src_eid |-> ETHEREUM_EID, sender |-> STRANGER, nonce |-> 1],
      [src_eid |-> ETHEREUM_SEPOLIA_EID, sender |-> PEER, nonce |-> 1] }

\* the guid the endpoint gives the message of an origin
GuidOf(origin) ==
    [i \in 1..32 |-> IF i = 32 THEN origin.nonce
                     ELSE IF i = 31 THEN origin.sender[1]
                     ELSE IF i = 30 THEN origin.src_eid % 256
                     ELSE 0]

SendParams ==
    [dst_eid : Eids, to : {Pubkey(30)}, amount_ld : Amounts,
     min_amount_ld : 1..(MaxSupply + 1)]

\* what an instruction leaves behind
Outcome(ix, sigs, data, err) ==
    ret' = [ix |-> ix, sigs |-> sigs, data |-> data, err |-> err]

NoData == <<>>

\* initialize(endpoint_program, admin), paid for by payer
Initialize(sigs, payer, endpoint_program, admin) ==
    LET err == IF payer \notin sigs THEN "AccountNotSigner"
               ELSE IF oft_config.exists THEN "AccountAlreadyInUse"
               ELSE "Ok"
    IN  /\ Outcome("initialize", sigs, NoData, err)
        /\ IF err = "Ok"
           THEN /\ oft_config' =
                     [exists |-> TRUE,
                      admin |-> admin,
                      mint |-> OFT_MINT,
                      endpoint_program |-> endpoint_program,
                      paused |-> FALSE,
                      total_bridged_in |-> 0,
                      total_bridged_out |-> 0,
                      bump |-> find_bump(<<OFT_CONFIG_SEED>>)]
                /\ mint_supply' = 0
           ELSE UNCHANGED <<oft_config, mint_supply>>
        /\ UNCHANGED <<peer_config, token_amount, notOftVars>>

\* set_peer(dst_eid, peer) with the accounts of SetPeer
SetPeer(sigs, admin, dst_eid, peer) ==
    LET err == IF ~oft_config.exists THEN "AccountNotInitialized"
               ELSE IF admin \notin sigs THEN "AccountNotSigner"
               ELSE IF peer_config[dst_eid].exists THEN "AccountAlreadyInUse"
               ELSE IF oft_config.admin # admin THEN "ConstraintHasOne"
               ELSE "Ok"
    IN  /\ Outcome("set_peer", sigs, [dst_eid |-> dst_eid], err)
        /\ IF err = "Ok"
           THEN peer_config' =
                  [peer_config EXCEPT ![dst_eid] =
                     [exists |-> TRUE,
                      eid |-> dst_eid,
                      address |-> peer,
                      enabled |-> TRUE,
                      bump |-> find_bump(<<PEER_SEED,
                                           u32_to_le_bytes(dst_eid)>>)]]
           ELSE UNCHANGED peer_config
        /\ UNCHANGED <<oft_config, mint_supply, token_amount, notOftVars>>

\* a send whose peer account is derived from the endpoint id the account
\* itself holds, as lz_receive derives it
SendPeerByItsEid(sigs, sender, e, mint, from, endpoint, send_param) ==
    LET peer == peer_config[e]
        err ==
          IF ~oft_config.exists THEN "AccountNotInitialized"
          ELSE IF ~peer.exists THEN "AccountNotInitialized"
          ELSE IF sender \notin sigs THEN "AccountNotSigner"
          ELSE IF create_program_address(
                     <<PEER_SEED, u32_to_le_bytes(peer.eid),
                       <<peer.bump>>>>) # PeerKey(peer)
               THEN "ConstraintSeeds"
          ELSE IF mint # oft_config.mint THEN "ConstraintAddress"
          ELSE IF TokenMint(from) # mint THEN "ConstraintRaw"
          ELSE IF TokenOwner(from) # sender THEN "ConstraintRaw"
          ELSE IF endpoint # oft_config.endpoint_program
               THEN "ConstraintAddress"
          ELSE IF oft_config.paused THEN "Paused"
          ELSE IF ~peer.enabled THEN "PeerDisabled"
          ELSE IF ~(send_param.amount_ld >= send_param.min_amount_ld)
               THEN "SlippageExceeded"
          ELSE IF token_amount[from] < send_param.amount_ld
               THEN "InsufficientFunds"
          ELSE IF checked_add(oft_config.total_bridged_out,
                              send_param.amount_ld) = {}
               THEN "Overflow"
          ELSE "Ok"
    IN  /\ Outcome("send", sigs,
                   [peer |-> e, from |-> from, sender |-> sender,
                    send_param |-> send_param], err)
        /\ IF err = "Ok"
           THEN /\ token_amount' =
                     [token_amount EXCEPT ![from] = @ - send_param.amount_ld]
                /\ mint_supply' = mint_supply - send_param.amount_ld
                /\ oft_config' =
                     [oft_config EXCEPT
                        !.total_bridged_out = @ + send_param.amount_ld]
           ELSE UNCHANGED <<token_amount, mint_supply, oft_config>>
        /\ UNCHANGED <<peer_config, notOftVars>>

\* send(send_param) with the accounts of Send: e names the PeerConfig
\* account the caller passes
Send(sigs, sender, e, mint, from, endpoint, send_param) ==
    LET peer == peer_config[e]
        err ==
          IF ~oft_config.exists THEN "AccountNotInitialized"
          ELSE IF ~peer.exists THEN "AccountNotInitialized"
          ELSE IF sender \notin sigs THEN "AccountNotSigner"
          ELSE IF create_program_address(
                     <<PEER_SEED, u8_to_le_bytes(oft_config.bump),
                       <<peer.bump>>>>) # PeerKey(peer)
               THEN "ConstraintSeeds"
          ELSE IF mint # oft_config.mint THEN "ConstraintAddress"
          ELSE IF TokenMint(from) # mint THEN "ConstraintRaw"
          ELSE IF TokenOwner(from) # sender THEN "ConstraintRaw"
          ELSE IF endpoint # oft_config.endpoint_program
               THEN "ConstraintAddress"
          ELSE IF oft_config.paused THEN "Paused"
          ELSE IF ~peer.enabled THEN "PeerDisabled"
          ELSE IF ~(send_param.amount_ld >= send_param.min_amount_ld)
               THEN "SlippageExceeded"
          ELSE IF token_amount[from] < send_param.amount_ld
               THEN "InsufficientFunds"
          ELSE IF checked_add(oft_config.total_bridged_out,
                              send_param.amount_ld) = {}
               THEN "Overflow"
          ELSE "Ok"
    IN  /\ Outcome("send", sigs,
                   [peer |-> e, from |-> from, sender |-> sender,
                    send_param |-> send_param], err)
        /\ IF err = "Ok"
           THEN /\ token_amount' =
                     [token_amount EXCEPT ![from] = @ - send_param.amount_ld]
                /\ mint_supply' = mint_supply - send_param.amount_ld
                /\ oft_config' =
                     [oft_config EXCEPT
                        !.total_bridged_out = @ + send_param.amount_ld]
           ELSE UNCHANGED <<token_amount, mint_supply, oft_config>>
        /\ UNCHANGED <<peer_config, notOftVars>>

\* a delivery that takes the message of any sender on the peer's chain
LzReceiveAnySender(sigs, e, mint, to, endpoint, origin, guid, message) ==
    LET peer == peer_config[e]
        decoded == decode_oft_message(message)
        recipient == decoded.to
        err ==
          IF ~oft_config.exists THEN "AccountNotInitialized"
          ELSE IF ~peer.exists THEN "AccountNotInitialized"
          ELSE IF endpoint \notin sigs THEN "AccountNotSigner"
          ELSE IF create_program_address(
                     <<PEER_SEED, u32_to_le_bytes(peer.eid),
                       <<peer.bump>>>>) # PeerKey(peer)
               THEN "ConstraintSeeds"
          ELSE IF mint # oft_config.mint THEN "ConstraintAddress"
          ELSE IF TokenMint(to) # mint THEN "ConstraintRaw"
          ELSE IF endpoint # oft_config.endpoint_program
               THEN "ConstraintAddress"
          ELSE IF oft_config.paused THEN "Paused"
          ELSE IF ~peer.enabled THEN "PeerDisabled"
          ELSE IF ~(peer.eid = origin.src_eid) THEN "InvalidPeer"
          ELSE IF decoded.err # "Ok" THEN decoded.err
          ELSE IF ~(decoded.msg_type = MSG_TYPE_SEND)
               THEN "InvalidMessageType"
          ELSE IF ~(TokenOwner(to) = recipient) THEN "InvalidRecipient"
          ELSE IF checked_add(oft_config.total_bridged_in,
                              decoded.amount) = {}
               THEN "Overflow"
          ELSE IF checked_add(mint_supply, decoded.amount) = {}
               THEN "TokenOverflow"
          ELSE "Ok"
    IN  /\ Outcome("lz_receive", sigs,
                   [peer |-> e, to |-> to, origin |-> origin,
                    guid |-> guid, message |-> message], err)
        /\ IF err = "Ok"
           THEN /\ oft_config' =
                     [oft_config EXCEPT
                        !.total_bridged_in = @ + decoded.amount]
                /\ mint_supply' = mint_supply + decoded.amount
                /\ token_amount' =
                     [token_amount EXCEPT ![to] = @ + decoded.amount]
           ELSE UNCHANGED <<oft_config, mint_supply, token_amount>>
        /\ UNCHANGED <<peer_config, notOftVars>>

\* a delivery whose total wraps around where the sum does not fit
LzReceiveWrapping(sigs, e, mint, to, endpoint, origin, guid, message) ==
    LET peer == peer_config[e]
        decoded == decode_oft_message(message)
        recipient == decoded.to
        err ==
          IF ~oft_config.exists THEN "AccountNotInitialized"
          ELSE IF ~peer.exists THEN "AccountNotInitialized"
          ELSE IF endpoint \notin sigs THEN "AccountNotSigner"
          ELSE IF create_program_address(
                     <<PEER_SEED, u32_to_le_bytes(peer.eid),
                       <<peer.bump>>>>) # PeerKey(peer)
               THEN "ConstraintSeeds"
          ELSE IF mint # oft_config.mint THEN "ConstraintAddress"
          ELSE IF TokenMint(to) # mint THEN "ConstraintRaw"
          ELSE IF endpoint # oft_config.endpoint_program
               THEN "ConstraintAddress"
          ELSE IF oft_config.paused THEN "Paused"
          ELSE IF ~peer.enabled THEN "PeerDisabled"
          ELSE IF ~(peer.eid = origin.src_eid) THEN "InvalidPeer"
          ELSE IF ~(peer.address = origin.sender) THEN "InvalidPeer"
          ELSE IF decoded.err # "Ok" THEN decoded.err
          ELSE IF ~(decoded.msg_type = MSG_TYPE_SEND)
               THEN "InvalidMessageType"
          ELSE IF ~(TokenOwner(to) = recipient) THEN "InvalidRecipient"
          ELSE IF checked_add(mint_supply, decoded.amount) = {}
               THEN "TokenOverflow"
          ELSE "Ok"
    IN  /\ Outcome("lz_receive", sigs,
                   [peer |-> e, to |-> to, origin |-> origin,
                    guid |-> guid, message |-> message], err)
        /\ IF err = "Ok"
           THEN /\ oft_config' =
                     [oft_config EXCEPT
                        !.total_bridged_in =
                           (@ + decoded.amount) % (U64_MAX + 1)]
                /\ mint_supply' = mint_supply + decoded.amount
                /\ token_amount' =
                     [token_amount EXCEPT ![to] = @ + decoded.amount]
           ELSE UNCHANGED <<oft_config, mint_supply, token_amount>>
        /\ UNCHANGED <<peer_config, notOftVars>>

\* lz_receive(origin, guid, message, executor, extra_data) with the
\* accounts of LzReceive
LzReceive(sigs, e, mint, to, endpoint, origin, guid, message) ==
    LET peer == peer_config[e]
        decoded == decode_oft_message(message)
        recipient == decoded.to
        err ==
          IF ~oft_config.exists THEN "AccountNotInitialized"
          ELSE IF ~peer.exists THEN "AccountNotInitialized"
          ELSE IF endpoint \notin sigs THEN "AccountNotSigner"
          ELSE IF create_program_address(
                     <<PEER_SEED, u32_to_le_bytes(peer.eid),
                       <<peer.bump>>>>) # PeerKey(peer)
               THEN "ConstraintSeeds"
          ELSE IF mint # oft_config.mint THEN "ConstraintAddress"
          ELSE IF TokenMint(to) # mint THEN "ConstraintRaw"
          ELSE IF endpoint # oft_config.endpoint_program
               THEN "ConstraintAddress"
          ELSE IF oft_config.paused THEN "Paused"
          ELSE IF ~peer.enabled THEN "PeerDisabled"
          ELSE IF ~(peer.eid = origin.src_eid) THEN "InvalidPeer"
          ELSE IF ~(peer.address = origin.sender) THEN "InvalidPeer"
          ELSE IF decoded.err # "Ok" THEN decoded.err
          ELSE IF ~(decoded.msg_type = MSG_TYPE_SEND)
               THEN "InvalidMessageType"
          ELSE IF ~(TokenOwner(to) = recipient) THEN "InvalidRecipient"
          ELSE IF checked_add(oft_config.total_bridged_in,
                              decoded.amount) = {}
               THEN "Overflow"
          ELSE IF checked_add(mint_supply, decoded.amount) = {}
               THEN "TokenOverflow"
          ELSE "Ok"
    IN  /\ Outcome("lz_receive", sigs,
                   [peer |-> e, to |-> to, origin |-> origin,
                    guid |-> guid, message |-> message], err)
        /\ IF err = "Ok"
           THEN /\ oft_config' =
                     [oft_config EXCEPT
                        !.total_bridged_in = @ + decoded.amount]
                /\ mint_supply' = mint_supply + decoded.amount
                /\ token_amount' =
                     [token_amount EXCEPT ![to] = @ + decoded.amount]
           ELSE UNCHANGED <<oft_config, mint_supply, token_amount>>
        /\ UNCHANGED <<peer_config, notOftVars>>

\* the token program's Burn, asked for by a holder without the bridge
HolderBurn(sigs, owner, from, amount) ==
    LET err == IF owner \notin sigs THEN "MissingRequiredSignature"
               ELSE IF TokenOwner(from) # owner THEN "OwnerMismatch"
               ELSE IF token_amount[from] < amount THEN "InsufficientFunds"
               ELSE "Ok"
    IN  /\ TokenMint(from) = OFT_MINT
        /\ Outcome("token_burn", sigs, [from |-> from, amount |-> amount],
                   err)
        /\ IF err = "Ok"
           THEN /\ token_amount' = [token_amount EXCEPT ![from] = @ - amount]
                /\ mint_supply' = mint_supply - amount
           ELSE UNCHANGED <<token_amount, mint_supply>>
        /\ UNCHANGED <<oft_config, peer_config, notOftVars>>

\* quote_send: a fee that no account decides
QuoteSend(endpoint) ==
    LET err == IF ~oft_config.exists THEN "AccountNotInitialized"
               ELSE IF endpoint # oft_config.endpoint_program
                    THEN "ConstraintAddress"
               ELSE "Ok"
    IN  /\ Outcome("quote_send", {}, NoData, err)
        /\ UNCHANGED <<oft_config, peer_config, mint_supply, token_amount,
                       notOftVars>>

\* set_paused(paused) with the accounts of SetPaused
SetPaused(sigs, admin, paused) ==
    LET err == IF ~oft_config.exists THEN "AccountNotInitialized"
               ELSE IF admin \notin sigs THEN "AccountNotSigner"
               ELSE IF oft_config.admin # admin THEN "ConstraintHasOne"
               ELSE "Ok"
    IN  /\ Outcome("set_paused", sigs, [paused |-> paused], err)
        /\ IF err = "Ok"
           THEN oft_config' = [oft_config EXCEPT !.paused = paused]
           ELSE UNCHANGED oft_config
        /\ UNCHANGED <<peer_config, mint_supply, token_amount, notOftVars>>

\* set_peer_enabled(dst_eid, enabled) with the accounts of SetPeerEnabled
SetPeerEnabled(sigs, admin, e, dst_eid, enabled) ==
    LET peer == peer_config[e]
        err ==
          IF ~oft_config.exists THEN "AccountNotInitialized"
          ELSE IF ~peer.exists THEN "AccountNotInitialized"
          ELSE IF admin \notin sigs THEN "AccountNotSigner"
          ELSE IF oft_config.admin # admin THEN "ConstraintHasOne"
          ELSE IF create_program_address(
                     <<PEER_SEED, u32_to_le_bytes(dst_eid),
                       <<peer.bump>>>>) # PeerKey(peer)
               THEN "ConstraintSeeds"
          ELSE "Ok"
    IN  /\ Outcome("set_peer_enabled", sigs, [enabled |-> enabled], err)
        /\ IF err = "Ok"
           THEN peer_config' = [peer_config EXCEPT ![e].enabled = enabled]
           ELSE UNCHANGED peer_config
        /\ UNCHANGED <<oft_config, mint_supply, token_amount, notOftVars>>

\* a transfer that any signer may ask for
TransferAdminAnySigner(sigs, admin, new_admin) ==
    LET err == IF ~oft_config.exists THEN "AccountNotInitialized"
               ELSE IF admin \notin sigs THEN "AccountNotSigner"
               ELSE "Ok"
    IN  /\ Outcome("transfer_admin", sigs, [new_admin |-> new_admin], err)
        /\ IF err = "Ok"
           THEN oft_config' = [oft_config EXCEPT !.admin = new_admin]
           ELSE UNCHANGED oft_config
        /\ UNCHANGED <<peer_config, mint_supply, token_amount, notOftVars>>

\* transfer_admin(new_admin) with the accounts of TransferAdmin
TransferAdmin(sigs, admin, new_admin) ==
    LET err == IF ~oft_config.exists THEN "AccountNotInitialized"
               ELSE IF admin \notin sigs THEN "AccountNotSigner"
               ELSE IF oft_config.admin # admin THEN "ConstraintHasOne"
               ELSE "Ok"
    IN  /\ Outcome("transfer_admin", sigs, [new_admin |-> new_admin], err)
        /\ IF err = "Ok"
           THEN oft_config' = [oft_config EXCEPT !.admin = new_admin]
           ELSE UNCHANGED oft_config
        /\ UNCHANGED <<peer_config, mint_supply, token_amount, notOftVars>>

\* no account of the program exists; the token accounts are empty
OftInit ==
    /\ prog = "eagle-oft-layerzero"
    /\ pool = 1
    /\ threads = 1
    /\ hits = {}
    /\ SearchInit
    /\ fin = NoCall
    /\ fout = NoCall
    /\ args = GenArgs
    /\ parsed = Parsed
    /\ budget = MaxIter
    /\ NoContracts
    /\ oft_config = NoAccount
    /\ peer_config = [e \in Eids |-> NoAccount]
    /\ mint_supply = 0
    /\ token_amount = [a \in TokenAccounts |-> 0]
    /\ ret = NoRet
    /\ config = NoAccount
    /\ registry_config = NoAccount

OftNext ==
    \/ \E payer \in {ALICE} : \E sigs \in Signers(payer) :
          Initialize(sigs, payer, ENDPOINT, ALICE)
    \/ \E admin \in Admins : \E sigs \in Signers(admin), dst_eid \in PeerEids :
          SetPeer(sigs, admin, dst_eid, PEER)
    \/ \E sender \in {ALICE, BOB} : \E sigs \in Signers(sender), e \in PeerEids,
          from \in TokenAccounts, send_param \in SendParams :
          Send(sigs, sender, e, OFT_MINT, from, ENDPOINT, send_param)
    \/ \E endpoint \in {ENDPOINT, BOB} : \E sigs \in Signers(endpoint),
          e \in PeerEids, to \in TokenAccounts, origin \in Origins,
          message \in Messages :
          LzReceive(sigs, e, OFT_MINT, to, endpoint, origin, GuidOf(origin),
                    message)
    \/ \E owner \in {ALICE, BOB} : \E sigs \in Signers(owner),
          from \in {"alice_eagle", "bob_eagle"}, amount \in Amounts :
          HolderBurn(sigs, owner, from, amount)
    \/ \E endpoint \in {ENDPOINT, BOB} : QuoteSend(endpoint)
    \/ \E admin \in Admins : \E sigs \in Signers(admin), paused \in BOOLEAN :
          SetPaused(sigs, admin, paused)
    \/ \E admin \in Admins : \E sigs \in Signers(admin), e \in PeerEids,
          dst_eid \in Eids, enabled \in BOOLEAN :
          SetPeerEnabled(sigs, admin, e, dst_eid, enabled)
    \/ \E admin \in Admins : \E sigs \in Signers(admin), new_admin \in Admins :
          TransferAdmin(sigs, admin, new_admin)

OftSpec == OftInit /\ [][OftNext]_vars

\* the accounts of the program and of the token
oftState == <<oft_config, peer_config, mint_supply, token_amount>>

\* a send whose caller did everything asked of it: the sender signed, the
\* tokens are the sender's and of the OFT mint, there are enough of them,
\* the peer account passed is a registered, enabled one
ProperSend(r) ==
    /\ r.data.sender \in r.sigs
    /\ peer_config[r.data.peer].exists
    /\ peer_config[r.data.peer].enabled
    /\ TokenOwner(r.data.from) = r.data.sender
    /\ TokenMint(r.data.from) = OFT_MINT
    /\ r.data.send_param.amount_ld >= r.data.send_param.min_amount_ld

\* a delivery by the endpoint, signed, from the registered peer, of a
\* transfer to the owner of the token account passed
ProperReceive(r) ==
    LET peer == peer_config[r.data.peer]
        m == r.data.message
    IN  /\ oft_config.endpoint_program \in r.sigs
        /\ peer.exists
        /\ peer.enabled
        /\ r.data.origin.src_eid = peer.eid
        /\ r.data.origin.sender = peer.address
        /\ Len(m) >= 41
        /\ m[1] = 0
        /\ TokenMint(r.data.to) = OFT_MINT
        /\ TokenOwner(r.data.to) = [i \in 1..32 |-> m[1 + i]]

\* C17: while config.paused is true, send and lz_receive fail and change
\* nothing, with OftError::Paused where the call is a proper one; and
\* paused becomes false again only by set_paused(false) signed by the admin.
C17_PausedBlocksBridge ==
    [][ (oft_config.exists /\ oft_config.paused) =>
          /\ ret'.ix = "lz_receive" =>
                /\ ret'.err # "Ok"
                /\ UNCHANGED oftState
                /\ ProperReceive(ret') => ret'.err = "Paused"
          /\ ret'.ix = "send" =>
                /\ ret'.err # "Ok"
                /\ UNCHANGED oftState
                /\ ProperSend(ret') => ret'.err = "Paused"
          /\ ~oft_config'.paused =>
                /\ ret'.ix = "set_paused"
                /\ ret'.err = "Ok"
                /\ ret'.data.paused = FALSE
                /\ oft_config.admin \in ret'.sigs ]_vars

\* the same, send's error left open
C17_PausedBlocksReceive ==
    [][ (oft_config.exists /\ oft_config.paused) =>
          /\ ret'.ix = "lz_receive" =>
                /\ ret'.err # "Ok"
                /\ UNCHANGED oftState
                /\ ProperReceive(ret') => ret'.err = "Paused"
          /\ ret'.ix = "send" =>
                /\ ret'.err # "Ok"
                /\ UNCHANGED oftState
          /\ ~oft_config'.paused =>
                /\ ret'.ix = "set_paused"
                /\ ret'.err = "Ok"
                /\ ret'.data.paused = FALSE
                /\ oft_config.admin \in ret'.sigs ]_vars

\* no send ever succeeds, paused or not
C17_SendNeverSucceeds == ret.ix = "send" => ret.err # "Ok"

\* C18: lz_receive mints only when the origin's (src_eid, sender) is the
\* (eid, address) of the registered peer passed, that peer is enabled, the
\* message is of type MSG_TYPE_SEND and the token account passed is owned
\* by the recipient the message names; then the amount of the message is
\* minted to that account; otherwise the instruction fails, nothing is
\* minted and total_bridged_in stays.
C18_ReceiveMintsOnlyFromPeer ==
    [][ ret'.ix = "lz_receive" =>
          LET d == ret'.data
              m == d.message
              peer == peer_config[d.peer]
              fromPeer ==
                /\ oft_config.exists
                /\ peer.exists
                /\ peer.enabled
                /\ d.origin.src_eid = peer.eid
                /\ d.origin.sender = peer.address
                /\ Len(m) >= 41
                /\ m[1] = 0
                /\ TokenOwner(d.to) = [i \in 1..32 |-> m[1 + i]]
              amount == m[38] * 16777216 + m[39] * 65536 + m[40] * 256 + m[41]
          IN  IF ret'.err = "Ok"
              THEN /\ fromPeer
                   /\ mint_supply' = mint_supply + amount
                   /\ token_amount' =
                        [token_amount EXCEPT ![d.to] = @ + amount]
                   /\ oft_config'.total_bridged_in =
                        oft_config.total_bridged_in + amount
              ELSE UNCHANGED oftState ]_vars

\* a message of the peer was delivered and minted to ALICE's account
C18_Witness ==
    /\ ret.ix = "lz_receive"
    /\ ret.err = "Ok"
    /\ ret.data.origin =
         [src_eid |-> ETHEREUM_EID, sender |-> PEER, nonce |-> 1]
    /\ mint_supply = 1
    /\ token_amount["alice_eagle"] = 1
    /\ oft_config.total_bridged_in = 1

\* C19: set_peer, set_paused, set_peer_enabled and transfer_admin succeed
\* only when config.admin signed; transfer_admin(new_admin) makes new_admin
\* the admin, so that the old admin (when another key) no longer passes and
\* the new admin does: its set_paused and transfer_admin always succeed.
C19_AdminOnly ==
    [][ /\ ( /\ ret'.ix \in {"set_peer", "set_paused", "set_peer_enabled",
                             "transfer_admin"}
             /\ ret'.err = "Ok" ) =>
               /\ oft_config.exists
               /\ oft_config.admin \in ret'.sigs
        /\ (ret'.ix = "transfer_admin" /\ ret'.err = "Ok") =>
               oft_config'.admin = ret'.data.new_admin
        /\ ( /\ ret'.ix \in {"set_paused", "transfer_admin"}
             /\ oft_config.exists
             /\ ret'.sigs = {oft_config.admin} ) =>
               ret'.err = "Ok"
        /\ (ret'.ix # "transfer_admin" \/ ret'.err # "Ok") =>
               (oft_config.exists => oft_config'.admin = oft_config.admin)
      ]_vars

\* BOB, made admin by a transfer, has paused the program
C19_Witness ==
    /\ ret.ix = "set_paused"
    /\ ret.err = "Ok"
    /\ ret.sigs = {BOB}
    /\ oft_config.admin = BOB
    /\ oft_config.paused

(***************************************************************************)
(* eagle-share-oft, eagle-share-oft-minimal (Anchor) and eagle-oft-raw     *)
(* (native): a Config account with the authority and the mint, mint by the *)
(* authority, burn by the owner of the tokens.  `prog` says which program  *)
(* a behaviour runs; the errors are those of Anchor, of the program and of *)
(* the token program.                                                      *)
(***************************************************************************)
SharePrograms ==
    {"eagle-share-oft", "eagle-share-oft-minimal", "eagle-oft-raw"}

Raw == prog = "eagle-oft-raw"

\* what no instruction of these programs touches
notShareVars == <<offChainVars, oft_config, peer_config, registry_config>>

\* the mint whose authority is the Config account
MintOfConfig == OFT_MINT

\* token::mint_to signed by the Config account
TokenMintTo(mint, to) ==
    IF mint # MintOfConfig THEN "OwnerMismatch"
    ELSE IF TokenMint(to) # mint THEN "MintMismatch"
    ELSE "Ok"

\* token::burn with authority user
TokenBurn(mint, from, user, amount) ==
    IF TokenMint(from) # mint THEN "MintMismatch"
    ELSE IF TokenOwner(from) # user THEN "OwnerMismatch"
    ELSE IF token_amount[from] < amount THEN "InsufficientFunds"
    ELSE "Ok"

\* initialize / process_initialize
ShareInitialize(sigs, authority, mint) ==
    LET err == IF authority \notin sigs
               THEN IF Raw THEN "MissingRequiredSignature"
                    ELSE "AccountNotSigner"
               ELSE IF config.exists THEN "AccountAlreadyInUse"
               ELSE "Ok"
    IN  /\ Outcome("initialize", sigs, NoData, err)
        /\ IF err = "Ok"
           THEN config' = [exists |-> TRUE,
                           authority |-> authority,
                           mint |-> mint,
                           bump |-> find_bump(<<"config">>)]
           ELSE UNCHANGED config
        /\ UNCHANGED <<mint_supply, token_amount, notShareVars>>

\* the checks of mint and bridge_in ahead of the token program
MintChecks(sigs, authority, mint) ==
    IF Raw
    THEN IF authority \notin sigs THEN "MissingRequiredSignature"
         ELSE IF ~config.exists THEN "BorshIoError"
         ELSE IF config.authority # authority THEN "IllegalOwner"
         ELSE "Ok"
    ELSE IF ~config.exists THEN "AccountNotInitialized"
         ELSE IF authority \notin sigs THEN "AccountNotSigner"
         ELSE IF mint # config.mint THEN "ConstraintAddress"
         ELSE IF ~(authority = config.authority) THEN "Unauthorized"
         ELSE "Ok"

\* a mint that asks for a signature and for no more
MintTokensAnySigner(sigs, authority, mint, to, amount) ==
    LET checks == IF authority \notin sigs THEN "AccountNotSigner"
                  ELSE IF ~config.exists THEN "AccountNotInitialized"
                  ELSE "Ok"
        err == IF checks # "Ok" THEN checks ELSE TokenMintTo(mint, to)
    IN  /\ err = "Ok" => mint_supply + amount <= MaxSupply
        /\ Outcome("mint", sigs,
                   [mint |-> mint, to |-> to, amount |-> amount], err)
        /\ IF err = "Ok"
           THEN /\ mint_supply' = mint_supply + amount
                /\ token_amount' = [token_amount EXCEPT ![to] = @ + amount]
           ELSE UNCHANGED <<mint_supply, token_amount>>
        /\ UNCHANGED <<config, notShareVars>>

\* mint(amount) / process_mint
MintTokens(sigs, authority, mint, to, amount) ==
    LET checks == MintChecks(sigs, authority, mint)
        err == IF checks # "Ok" THEN checks ELSE TokenMintTo(mint, to)
    IN  /\ err = "Ok" => mint_supply + amount <= MaxSupply
        /\ Outcome("mint", sigs,
                   [mint |-> mint, to |-> to, amount |-> amount], err)
        /\ IF err = "Ok"
           THEN /\ mint_supply' = mint_supply + amount
                /\ token_amount' = [token_amount EXCEPT ![to] = @ + amount]
           ELSE UNCHANGED <<mint_supply, token_amount>>
        /\ UNCHANGED <<config, notShareVars>>

\* eagle-share-oft: bridge_in(amount, _source_chain_id)
BridgeIn(sigs, authority, mint, to, amount) ==
    LET checks == MintChecks(sigs, authority, mint)
        err == IF checks # "Ok" THEN checks ELSE TokenMintTo(mint, to)
    IN  /\ prog = "eagle-share-oft"
        /\ err = "Ok" => mint_supply + amount <= MaxSupply
        /\ Outcome("bridge_in", sigs,
                   [mint |-> mint, to |-> to, amount |-> amount], err)
        /\ IF err = "Ok"
           THEN /\ mint_supply' = mint_supply + amount
                /\ token_amount' = [token_amount EXCEPT ![to] = @ + amount]
           ELSE UNCHANGED <<mint_supply, token_amount>>
        /\ UNCHANGED <<config, notShareVars>>

\* the checks of burn and bridge_out ahead of the token program;
\* process_burn compares the address of the Config account and never
\* reads it
BurnChecks(sigs, user, mint) ==
    IF Raw
    THEN IF user \notin sigs THEN "MissingRequiredSignature" ELSE "Ok"
    ELSE IF ~config.exists THEN "AccountNotInitialized"
         ELSE IF user \notin sigs THEN "AccountNotSigner"
         ELSE IF mint # config.mint THEN "ConstraintAddress"
         ELSE "Ok"

\* burn(amount) / process_burn
BurnTokens(sigs, user, mint, from, amount) ==
    LET checks == BurnChecks(sigs, user, mint)
        err == IF checks # "Ok" THEN checks
               ELSE TokenBurn(mint, from, user, amount)
    IN  /\ Outcome("burn", sigs,
                   [mint |-> mint, from |-> from, amount |-> amount], err)
        /\ IF err = "Ok"
           THEN /\ mint_supply' = mint_supply - amount
                /\ token_amount' = [token_amount EXCEPT ![from] = @ - amount]
           ELSE UNCHANGED <<mint_supply, token_amount>>
        /\ UNCHANGED <<config, notShareVars>>

\* eagle-share-oft: bridge_out(amount, destination_chain_id, recipient)
BridgeOut(sigs, user, mint, from, amount) ==
    LET checks == BurnChecks(sigs, user, mint)
        err == IF checks # "Ok" THEN checks
               ELSE TokenBurn(mint, from, user, amount)
    IN  /\ prog = "eagle-share-oft"
        /\ Outcome("bridge_out", sigs,
                   [mint |-> mint, from |-> from, amount |-> amount], err)
        /\ IF err = "Ok"
           THEN /\ mint_supply' = mint_supply - amount
                /\ token_amount' = [token_amount EXCEPT ![from] = @ - amount]
           ELSE UNCHANGED <<mint_supply, token_amount>>
        /\ UNCHANGED <<config, notShareVars>>

ShareInit ==
    /\ prog \in SharePrograms
    /\ pool = 1
    /\ threads = 1
    /\ hits = {}
    /\ SearchInit
    /\ fin = NoCall
    /\ fout = NoCall
    /\ args = GenArgs
    /\ parsed = Parsed
    /\ budget = MaxIter
    /\ NoContracts
    /\ oft_config = NoAccount
    /\ peer_config = <<>>
    /\ mint_supply = 0
    /\ token_amount = [a \in TokenAccounts |-> 0]
    /\ ret = NoRet
    /\ config = NoAccount
    /\ registry_config = NoAccount

ShareNext ==
    \/ \E authority \in Admins :
         \E sigs \in Signers(authority),
            mint \in (IF Raw THEN Mints ELSE {MintOfConfig}) :
           ShareInitialize(sigs, authority, mint)
    \/ \E authority \in Admins :
         \E sigs \in Signers(authority), mint \in Mints,
            to \in TokenAccounts, amount \in Amounts :
           MintTokens(sigs, authority, mint, to, amount)
    \/ \E authority \in Admins :
         \E sigs \in Signers(authority), mint \in Mints,
            to \in TokenAccounts, amount \in Amounts :
           BridgeIn(sigs, authority, mint, to, amount)
    \/ \E user \in Admins :
         \E sigs \in Signers(user), mint \in Mints,
            from \in TokenAccounts, amount \in Amounts :
           BurnTokens(sigs, user, mint, from, amount)
    \/ \E user \in Admins :
         \E sigs \in Signers(user), mint \in Mints,
            from \in TokenAccounts, amount \in Amounts :
           BridgeOut(sigs, user, mint, from, amount)

ShareSpec == ShareInit /\ [][ShareNext]_vars

\* C20: in eagle-share-oft, eagle-share-oft-minimal and eagle-oft-raw,
\* mint and bridge_in succeed only when the key that signed is the
\* authority the Config account got at initialize, which never changes;
\* any other call of them fails and leaves supply and balances as they
\* were; burn and bridge_out succeed on the signature of the owner of the
\* tokens alone, whoever the authority is.
C20_MintByAuthorityBurnByOwner ==
    [][ /\ ret'.ix \in {"mint", "bridge_in"} =>
              IF ret'.err = "Ok"
              THEN /\ config.exists
                   /\ ret'.sigs = {config.authority}
                   /\ mint_supply' = mint_supply + ret'.data.amount
              ELSE UNCHANGED <<mint_supply, token_amount>>
        /\ ( /\ ret'.ix \in {"mint", "bridge_in"}
             /\ config.exists
             /\ ret'.sigs # {config.authority} ) => ret'.err # "Ok"
        /\ config.exists => config' = config
        /\ ret'.ix \in {"burn", "bridge_out"} =>
              LET d == ret'.data
                  byOwner ==
                    /\ ret'.sigs = {TokenOwner(d.from)}
                    /\ TokenMint(d.from) = d.mint
                    /\ token_amount[d.from] >= d.amount
                    /\ Raw \/ (config.exists /\ d.mint = config.mint)
              IN  /\ byOwner => ret'.err = "Ok"
                  /\ ret'.err = "Ok" =>
                        mint_supply' = mint_supply - d.amount
      ]_vars

\* BOB, who is not the authority, has burned the token ALICE minted to him
C20_Witness ==
    /\ prog \in SharePrograms
    /\ config.exists
    /\ config.authority = ALICE
    /\ ret.ix = "burn"
    /\ ret.err = "Ok"
    /\ ret.sigs = {BOB}
    /\ mint_supply = 0

(***************************************************************************)
(* eagle-registry-solana: a RegistryConfig account, written by initialize  *)
(* and update_config, and one PeerChainConfig account per registered       *)
(* endpoint id.                                                            *)
(***************************************************************************)
\* what no instruction of eagle-registry-solana touches
notRegistryVars ==
    <<offChainVars, oft_config, config, mint_supply, token_amount>>

\* b"registry"
REGISTRY_SEED == <<114, 101, 103, 105, 115, 116, 114, 121>>

\* the address of an existing PeerChainConfig account: where
\* register_peer_chain put it
PeerChainKey(p) ==
    create_program_address(
        <<PEER_SEED, u32_to_le_bytes(p.chain_eid), <<p.bump>>>>)

\* Option<T>: None is the empty set, Some(v) is {v}
None == {}

Some(v) == {v}

\* chain names: one that fits and one of 33 bytes
ChainNames ==
    { <<"E", "t", "h", "e", "r", "e", "u", "m">>, [i \in 1..33 |-> "x"] }

\* the messages delivered to the registry: action 0, action 1, an action
\* it does not know, and no byte at all
RegistryMessages == { <<0, 7>>, <<1>>, <<2>>, <<>> }

\* initialize(solana_eid, wsol_address, lz_endpoint) with the accounts of
\* Initialize
RegistryInitialize(sigs, authority, solana_eid, wsol_address, lz_endpoint) ==
    LET err == IF authority \notin sigs THEN "AccountNotSigner"
               ELSE IF registry_config.exists THEN "AccountAlreadyInUse"
               ELSE "Ok"
    IN  /\ Outcome("initialize", sigs, NoData, err)
        /\ IF err = "Ok"
           THEN registry_config' =
                  [exists |-> TRUE,
                   authority |-> authority,
                   solana_eid |-> solana_eid,
                   wsol_address |-> wsol_address,
                   lz_endpoint |-> lz_endpoint,
                   is_active |-> TRUE,
                   bump |-> find_bump(<<REGISTRY_SEED>>)]
           ELSE UNCHANGED registry_config
        /\ UNCHANGED <<peer_config, notRegistryVars>>

\* what update_config writes
UpdatedConfig(new_endpoint, is_active) ==
    [registry_config EXCEPT
        !.lz_endpoint = IF new_endpoint = None THEN @
                        ELSE CHOOSE endpoint \in new_endpoint : TRUE,
        !.is_active = IF is_active = None THEN @
                      ELSE CHOOSE active \in is_active : TRUE]

\* an update that any signer may ask for
UpdateConfigAnySigner(sigs, authority, new_endpoint, is_active) ==
    LET err == IF ~registry_config.exists THEN "AccountNotInitialized"
               ELSE IF authority \notin sigs THEN "AccountNotSigner"
               ELSE "Ok"
    IN  /\ Outcome("update_config", sigs, NoData, err)
        /\ IF err = "Ok"
           THEN registry_config' = UpdatedConfig(new_endpoint, is_active)
           ELSE UNCHANGED registry_config
        /\ UNCHANGED <<peer_config, notRegistryVars>>

\* update_config(new_endpoint, is_active) with the accounts of UpdateConfig
UpdateConfig(sigs, authority, new_endpoint, is_active) ==
    LET err == IF ~registry_config.exists THEN "AccountNotInitialized"
               ELSE IF authority \notin sigs THEN "AccountNotSigner"
               ELSE IF registry_config.authority # authority
                    THEN "ConstraintHasOne"
               ELSE "Ok"
    IN  /\ Outcome("update_config", sigs, NoData, err)
        /\ IF err = "Ok"
           THEN registry_config' = UpdatedConfig(new_endpoint, is_active)
           ELSE UNCHANGED registry_config
        /\ UNCHANGED <<peer_config, notRegistryVars>>

\* register_peer_chain(chain_eid, chain_name, peer_address) with the
\* accounts of RegisterPeerChain
RegisterPeerChain(sigs, authority, chain_eid, chain_name, peer_address) ==
    LET err == IF ~registry_config.exists THEN "AccountNotInitialized"
               ELSE IF authority \notin sigs THEN "AccountNotSigner"
               ELSE IF registry_config.authority # authority
                    THEN "ConstraintHasOne"
               ELSE IF peer_config[chain_eid].exists
                    THEN "AccountAlreadyInUse"
               ELSE IF ~(Len(chain_name) <= 32) THEN "NameTooLong"
               ELSE "Ok"
    IN  /\ Outcome("register_peer_chain", sigs, [chain_eid |-> chain_eid],
                   err)
        /\ IF err = "Ok"
           THEN peer_config' =
                  [peer_config EXCEPT ![chain_eid] =
                     [exists |-> TRUE,
                      chain_eid |-> chain_eid,
                      chain_name |-> chain_name,
                      peer_address |-> peer_address,
                      is_active |-> TRUE,
                      bump |-> find_bump(<<PEER_SEED,
                                           u32_to_le_bytes(chain_eid)>>)]]
           ELSE UNCHANGED peer_config
        /\ UNCHANGED <<registry_config, notRegistryVars>>

\* the accounts of LzReceive and of SendQuery: e names the PeerChainConfig
\* account the caller passes, eid is the instruction's first argument
PeerAccounts(e, eid) ==
    LET peer == peer_config[e]
    IN  IF ~registry_config.exists THEN "AccountNotInitialized"
        ELSE IF ~peer.exists THEN "AccountNotInitialized"
        ELSE IF create_program_address(
                   <<PEER_SEED, u32_to_le_bytes(eid), <<peer.bump>>>>)
                  # PeerChainKey(peer)
             THEN "ConstraintSeeds"
        ELSE "Ok"

\* lz_receive(src_eid, sender, nonce, guid, message) with the accounts of
\* LzReceive; nobody has to sign
RegistryLzReceive(sigs, e, src_eid, sender, message) ==
    LET peer == peer_config[e]
        accounts == PeerAccounts(e, src_eid)
        err == IF accounts # "Ok" THEN accounts
               ELSE IF ~registry_config.is_active THEN "RegistryInactive"
               ELSE IF ~(peer.chain_eid = src_eid) THEN "UnknownPeer"
               ELSE IF ~(peer.peer_address = sender) THEN "InvalidSender"
               ELSE IF ~peer.is_active THEN "PeerInactive"
               ELSE IF message = <<>> THEN "EmptyMessage"
               ELSE IF At(message, 0) \notin {0, 1} THEN "UnknownAction"
               ELSE "Ok"
    IN  /\ Outcome("lz_receive", sigs,
                   [src_eid |-> src_eid, sender |-> sender], err)
        /\ UNCHANGED <<registry_config, peer_config, notRegistryVars>>

\* send_query(dst_eid, query_type, query_data) with the accounts of
\* SendQuery: authority is any key that signed
SendQuery(sigs, authority, e, dst_eid, query_type) ==
    LET peer == peer_config[e]
        accounts == PeerAccounts(e, dst_eid)
        err == IF accounts # "Ok" THEN accounts
               ELSE IF authority \notin sigs THEN "AccountNotSigner"
               ELSE IF ~registry_config.is_active THEN "RegistryInactive"
               ELSE IF ~(peer.chain_eid = dst_eid) THEN "UnknownPeer"
               ELSE IF ~peer.is_active THEN "PeerInactive"
               ELSE "Ok"
    IN  /\ Outcome("send_query", sigs,
                   [dst_eid |-> dst_eid, query_type |-> query_type], err)
        /\ UNCHANGED <<registry_config, peer_config, notRegistryVars>>

\* no account of the program exists
RegistryInit ==
    /\ prog = "eagle-registry-solana"
    /\ pool = 1
    /\ threads = 1
    /\ hits = {}
    /\ SearchInit
    /\ fin = NoCall
    /\ fout = NoCall
    /\ args = GenArgs
    /\ parsed = Parsed
    /\ budget = MaxIter
    /\ NoContracts
    /\ oft_config = NoAccount
    /\ peer_config = [e \in Eids |-> NoAccount]
    /\ mint_supply = 0
    /\ token_amount = <<>>
    /\ ret = NoRet
    /\ config = NoAccount
    /\ registry_config = NoAccount

RegistryNext ==
    \/ \E authority \in Admins : \E sigs \in Signers(authority) :
          RegistryInitialize(sigs, authority, ETHEREUM_SEPOLIA_EID,
                             OTHER_MINT, ENDPOINT)
    \/ \E authority \in Admins :
          \E sigs \in Signers(authority),
             new_endpoint \in {None, Some(ENDPOINT), Some(STRANGER)},
             is_active \in {None, Some(TRUE), Some(FALSE)} :
            UpdateConfig(sigs, authority, new_endpoint, is_active)
    \/ \E authority \in Admins :
          \E sigs \in Signers(authority), chain_eid \in Eids,
             chain_name \in ChainNames :
            RegisterPeerChain(sigs, authority, chain_eid, chain_name, PEER)
    \/ \E caller \in {BOB} :
          \E sigs \in Signers(caller), e \in Eids, src_eid \in Eids,
             sender \in {PEER, STRANGER}, message \in RegistryMessages :
            RegistryLzReceive(sigs, e, src_eid, sender, message)
    \/ \E authority \in Admins :
          \E sigs \in Signers(authority), e \in Eids, dst_eid \in Eids :
            SendQuery(sigs, authority, e, dst_eid, 0)

RegistrySpec == RegistryInit /\ [][RegistryNext]_vars

\* the state of the registry: its configuration and its peers
registryState == <<registry_config, peer_config>>

\* C21: in eagle-registry-solana initialize succeeds at most once; after
\* it, lz_endpoint, is_active and the registered peers change only in an
\* update_config or register_peer_chain signed by the authority recorded
\* at initialize; that authority never changes; lz_receive and send_query
\* change neither the registry nor a peer.
C21_AuthorityOnlyWrites ==
    [][ /\ (ret'.ix = "initialize" /\ ret'.err = "Ok") =>
              ~registry_config.exists
        /\ registry_config.exists =>
              /\ registry_config'.exists
              /\ registry_config'.authority = registry_config.authority
              /\ ret'.ix = "initialize" => ret'.err # "Ok"
        /\ (registry_config.exists /\ registryState' # registryState) =>
              /\ ret'.ix \in {"update_config", "register_peer_chain"}
              /\ ret'.err = "Ok"
              /\ registry_config.authority \in ret'.sigs
        /\ (~registry_config.exists /\ registryState' # registryState) =>
              /\ ret'.ix = "initialize"
              /\ peer_config' = peer_config
        /\ ret'.ix \in {"lz_receive", "send_query"} =>
              UNCHANGED registryState
      ]_vars

\* ALICE initialized the registry, registered a peer and switched the
\* registry off; BOB's update_config has just been turned down
C21_Witness ==
    /\ prog = "eagle-registry-solana"
    /\ registry_config.exists
    /\ registry_config.authority = ALICE
    /\ ~registry_config.is_active
    /\ peer_config[ETHEREUM_EID].exists
    /\ ret.ix = "update_config"
    /\ ret.sigs = {BOB}
    /\ ret.err = "ConstraintHasOne"

(***************************************************************************)
(* The worker loops of the miners: the order of the candidates, the flag,  *)
(* the counter and the reporter.                                           *)
(***************************************************************************)
\* C22: vanity-gen with W workers: the i-th candidate (i = 0, 1, 2, ...)
\* that worker w evaluates has counter w + i*W.
C22_DisjointStride ==
    prog = "vanity-gen" =>
        \A w \in DOMAIN visited :
            \A k \in 1..Len(visited[w]) :
                visited[w][k] = w + (k - 1) * threads

\* what the worker loop does: the i-th candidate of worker w has counter
\* w * 1_000_000 + i
C22_OffsetBlocks ==
    prog = "vanity-gen" =>
        \A w \in DOMAIN visited :
            \A k \in 1..Len(visited[w]) :
                visited[w][k] = w * ThreadOffset + (k - 1)

\* C23: in vanity-miner and create2-miner-wlfi, which report the match from
\* inside the worker closure, no match is produced once FoundFlag is true:
\* at most one match is reported per run.
C23_AtMostOneReport ==
    prog \in {"vanity-miner", "create2-miner-wlfi"} =>
        Cardinality(printed) <= 1

\* the part that holds: a closure that read FoundFlag as true reports
\* nothing, so every match reported was computed by a closure that had read
\* the flag as false
C23_ReportOnlyAfterFalseRead ==
    [][ \A t \in Threads :
          (tpc[t] = "check" /\ found /\ tpc'[t] # "check") =>
             /\ tpc'[t] = "idle"
             /\ printed' = printed ]_vars

\* C24: vanity-gen and create2-miner, several workers computing a match in
\* the same race window: exactly one of them takes FoundFlag from false to
\* true, and the MatchResult the search returns is that worker's.
C24_WinnerIsReturned ==
    ( /\ prog \in {"vanity-gen", "create2-miner"}
      /\ mainpc # "searching"
      /\ result # NoResult ) =>
        /\ Cardinality(foundBy) = 1
        /\ \A r \in result : foundBy = {r.item}

\* the part that holds: one worker takes the flag from false to true, and
\* the match returned is one of the matches the workers computed
C24_OneWinnerSomeMatchReturned ==
    ( /\ prog \in {"vanity-gen", "create2-miner"}
      /\ mainpc # "searching"
      /\ result # NoResult ) =>
        /\ Cardinality(foundBy) = 1
        /\ foundBy \subseteq { r.item : r \in results }
        /\ result \subseteq results

\* the steps of a closure behind its read of the flag
Working == {"eval", "count", "match", "flush", "report"}

\* C25: in every miner an iteration of a worker starts with the read of
\* FoundFlag; the read changes nothing; an iteration that read true ends
\* there, with no candidate, no derivation, no AttemptCounter update and no
\* match; derivation, counting and matching happen only behind a read of
\* false.
C25_FlagReadFirst ==
    [][ /\ \A t \in Threads :
            /\ (tpc[t] = "idle" /\ tpc'[t] \notin {"idle", "done"}) =>
                  tpc'[t] = "check"
            /\ (tpc[t] = "check" /\ tpc'[t] # "check") =>
                  /\ UNCHANGED <<found, attempts, visited, results, rfound,
                                 printed, salt_value, address>>
                     \/ (tpc'[t] = "idle" /\ UNCHANGED
                           <<found, attempts, visited, results, rfound,
                             printed>>)
                  /\ IF found THEN tpc'[t] = "idle"
                     ELSE tpc'[t] \in {"eval", "count"}
            /\ (tpc'[t] \in {"eval", "count"} /\ tpc[t] # tpc'[t]) =>
                  (tpc[t] = "check" /\ ~found)
            /\ (tpc'[t] \in {"match", "flush", "report"}
                /\ tpc[t] # tpc'[t]) => tpc[t] \in Working
        /\ ( \/ attempts' # attempts
             \/ visited' # visited
             \/ results' # results
             \/ printed' # printed
             \/ found' # found ) =>
              \E t \in Threads : tpc[t] \in Working /\ tpc'[t] # tpc[t]
      ]_vars

\* a closure of create2-miner was handed a nonce, read the flag as true
\* and returned: the nonce was never derived
C25_Witness ==
    /\ prog = "create2-miner"
    /\ found
    /\ \E i \in taken : visited[i] = <<>>
    /\ \A t \in Threads : tpc[t] \in {"idle", "done"}

\* C26: after FoundFlag has become true every worker performs at most one
\* more derivation, the one in flight when the flag was set, and then
\* stops.
C26_OneDerivationInFlight ==
    \A t \in Threads : derivedAfterFound[t] <= 1

\* a vanity-gen worker derived a candidate after another worker had set
\* the flag, read the flag and returned; the search is over
C26_Witness ==
    /\ prog = "vanity-gen"
    /\ mainpc = "finished"
    /\ \E t \in Threads : derivedAfterFound[t] = 1

\* a pool thread that is through with the search
Stopped(t) == tpc[t] = "done"

\* C27: with every thread scheduled fairly, once a worker has set FoundFlag
\* every worker stops, by reading the flag or by its own match, and the
\* search returns to the coordinator, which ends; a worker that has stopped
\* never runs again.
C27_AllStopAfterFound ==
    /\ found ~> ( /\ \A t \in Threads : Stopped(t)
                  /\ result # NoResult \/ printed # {}
                  /\ mainpc = "finished" )
    /\ [][ \A t \in Threads :
             Stopped(t) => /\ Stopped(t)'
                           /\ titem'[t] = titem[t]
                           /\ address'[t] = address[t]
                           /\ derivedAfterFound'[t] = derivedAfterFound[t]
          ]_vars

\* vanity-keygen on two cores has ended: one worker matched, the other one
\* stopped on reading the flag
C27_Witness ==
    /\ prog = "vanity-keygen"
    /\ pool = 2
    /\ mainpc = "finished"
    /\ Cardinality(results) = 1
    /\ Cardinality(taken) = 2
    /\ \A t \in Threads : Stopped(t)

\* C28: in every miner, at every moment of a run, AttemptCounter is at most
\* the number of candidates whose derivation has been completed.
C28_CounterLowerBound ==
    attempts <= Cardinality(Evaluated)

\* the miners that count a candidate before they derive it
CountsFirst ==
    prog \in {"create2-miner-wlfi", "registry-full", "registry-partial"}

\* what holds: the counter is ahead of the derivations completed by no more
\* than the workers that have counted a candidate and not yet derived it
C28_AheadByInFlight ==
    attempts <= Cardinality(Evaluated) +
                (IF CountsFirst
                 THEN Cardinality({ t \in Threads : tpc[t] = "match" })
                 ELSE 0)

\* C29: AttemptCounter never decreases during a run, so the reading the
\* vanity-registry reporter kept (last_attempts) is never above the counter
\* and current - last_attempts never underflows.
C29_NoUnderflow ==
    /\ [](last_attempts <= attempts)
    /\ [][ /\ attempts' >= attempts
           /\ (prog = "registry-full" /\ rpc = "report" /\ rpc' # rpc) =>
                 /\ attempts - last_attempts >= 0
                 /\ last_attempts' = attempts ]_vars

\* the vanity-registry reporter has kept a reading, the workers went on,
\* and it is about to take the difference
C29_Witness ==
    /\ prog = "registry-full"
    /\ rpc = "report"
    /\ last_attempts >= 1
    /\ attempts > last_attempts

\* everything of a run but the reporter's own position and kept reading
notRepVars ==
    <<cfgVars, found, attempts, taken, rfound, results, tpc, locals,
      mainVars, printed, visitHist, foundHist>>

\* the worker loop of t has used up the candidates it is followed through
\* (vanity-gen and vanity-keygen loop without end)
Exhausted(t) ==
    /\ tpc[t] = "check"
    /\ ~found
    /\ \/ prog = "vanity-gen" /\ Len(visited[titem[t]]) >= budget
       \/ prog = "vanity-keygen" /\ Len(visited[titem[t]]) >= MaxDraws

\* the nonces (0u64..) is followed through have all been handed out
RangeCut ==
    /\ Unbounded(prog)
    /\ ItemsOf(prog, threads) \ taken = {}
    /\ ~rfound

\* C30: the progress reporter is a pure observer: a step of it writes neither
\* FoundFlag nor AttemptCounter nor anything of a worker or of the
\* coordinator, and wherever it stands (sleeping, reporting, stopped for
\* good) a worker inside its closure can take its next step, a free worker
\* can take a candidate or leave, and the coordinator can return once the
\* workers have.
C30_PureObserver ==
    /\ [][ repVars' # repVars => notRepVars' = notRepVars ]_vars
    /\ [](\A t \in Threads :
            (tpc[t] \notin {"idle", "done"} /\ ~Exhausted(t))
               => ENABLED Worker(t))
    /\ []((mainpc = "searching" /\ ~RangeCut
                                /\ \E t \in Threads : tpc[t] = "idle")
             => \E t \in Threads : tpc[t] = "idle" /\ ENABLED Worker(t))
    /\ []((mainpc \in {"searching", "returned"}
               /\ \A t \in Threads : tpc[t] = "done")
             => ENABLED Main)

\* the reporter stopped in the middle of a report and never went on; the
\* workers found a match and the coordinator returned it
C30_Witness ==
    /\ HasReporter(prog)
    /\ rpc = "report"
    /\ found
    /\ mainpc = "finished"
    /\ result # NoResult \/ printed # {}

(***************************************************************************)
(* The candidate encoding, the worker loops of vanity-gen, the four        *)
(* searches of all-contracts-real-deployer, and the accounting of          *)
(* eagle-oft-layerzero.                                                    *)
(***************************************************************************)
\* the unsigned integer a big-endian byte string encodes
RECURSIVE BigEndianValue(_)
BigEndianValue(bs) ==
    IF bs = <<>> THEN 0
    ELSE BigEndianValue(SubSeq(bs, 1, Len(bs) - 1)) * 256 + bs[Len(bs)]

\* C31: the candidate for counter n is the 32-byte salt whose bytes 0..23 are
\* zero and whose bytes 24..31 are n in big-endian; distinct counters give
\* distinct salts, and vanity-gen, create2-miner, vanity-miner,
\* create2-miner-wlfi and vanity-registry all build the same salt.
C31_SaltEncoding ==
    (fout # NoCall /\ fin.kind = "salt") =>
        /\ Len(fout.gen) = 32
        /\ \A i \in 1..24 : fout.gen[i] = 0
        /\ BigEndianValue(SubSeq(fout.gen, 25, 32)) = fin.n
        /\ fout.gen[32] = fin.n % 256
        /\ \A name \in {"c2", "miner", "wlfi", "reg"} : fout[name] = fout.gen
        /\ \A m \in SampleSaltCounters :
              m # fin.n => /\ SaltOf(m) # fout.gen
                           /\ reg_salt(m) # fout.reg

\* the salts of a counter of three significant bytes have been built
C31_Witness ==
    /\ fout # NoCall
    /\ fin.kind = "salt"
    /\ fin.n = 1000000
    /\ fout.reg[30] = 15 /\ fout.reg[31] = 66 /\ fout.reg[32] = 64

\* worker id w has evaluated a candidate
Started(w) == w \in DOMAIN visited /\ visited[w] # <<>>

\* C32: in vanity-gen every configured worker id in 0..W eventually
\* evaluates its first candidate unless a match is found, whatever the size
\* of the thread pool.
C32_EveryWorkerStarts ==
    \A w \in 0..(MaxThreads - 1) :
        (prog = "vanity-gen" /\ w < threads)
            ~> (found \/ Started(w))

\* what holds: every worker id starts when the pool has a thread for each
C32_EveryWorkerStartsInWidePool ==
    \A w \in 0..(MaxThreads - 1) :
        (prog = "vanity-gen" /\ w < threads /\ threads <= pool)
            ~> (found \/ Started(w))

(***************************************************************************)
(* all-contracts-real-deployer: main runs four searches, one per contract, *)
(* and collects their results.  `prog` is the search routine main is in:   *)
(* find_vanity_full_pattern for the first contract,                        *)
(* find_vanity_partial_pattern for the other three.                        *)
(***************************************************************************)
ContractNames ==
    <<"EagleShareOFT", "EagleOVault", "EagleVaultWrapper", "CharmStrategyUSD1">>

LastContract == Len(ContractNames)

\* the search routine generate_vanity_oft / _vault / _wrapper / _strategy call
RoutineOf(k) == IF k = 1 THEN "registry-full" ELSE "registry-partial"

PatternOf(k) == IF k = 1 THEN "0x47...ea91e" ELSE "0x47..."

\* VanityResult { .. }: salt and address as "0x" and their hex digits
\* (time_seconds and timestamp are read off the clock and left out)
VanityResult(k, r, total) ==
    [contract_name |-> ContractNames[k],
     salt |-> <<"0", "x">> \o hex_encode(r.salt),
     address |-> <<"0", "x">> \o hex_encode(r.address),
     deployer |-> REG_DEPLOYER,
     attempts |-> total,
     pattern |-> PatternOf(k)]

AllInit ==
    /\ prog = RoutineOf(1)
    /\ contract = 1
    /\ all_results = <<>>
    /\ first_search = [found |-> FALSE, attempts |-> 0]
    /\ pool \in 1..MaxPool
    /\ threads = pool
    /\ hits \in Oracles(prog, threads)
    /\ SearchInit
    /\ fin = NoCall
    /\ fout = NoCall
    /\ args = GenArgs
    /\ parsed = Parsed
    /\ budget = MaxIter
    /\ NoChain

\* let found = Arc::new(AtomicBool::new(false));
\* let attempts = Arc::new(AtomicU64::new(0)); and an idle pool
FreshSearch(routine) ==
    /\ found' = FALSE
    /\ attempts' = 0
    /\ taken' = {}
    /\ rfound' = FALSE
    /\ results' = {}
    /\ tpc' = [t \in Threads |-> "idle"]
    /\ titem' = [t \in Threads |-> 0]
    /\ salt_value' = [t \in Threads |-> 0]
    /\ local_attempts' = [t \in Threads |-> 0]
    /\ address' = [t \in Threads |-> <<>>]
    /\ result' = NoResult
    /\ printed' = {}
    /\ total_attempts' = 0
    /\ visited' = [i \in ItemsOf(routine, threads) |-> <<>>]
    /\ foundBy' = {}
    /\ attemptsAtFound' = 0
    /\ activeAtFound' = 0
    /\ derivedAfterFound' = [t \in Threads |-> 0]

\* what FreshSearch sets
searchFrame ==
    <<found, attempts, taken, rfound, results, tpc, locals, result, printed,
      total_attempts, visitHist, foundHist>>

\* a main that hands the flag and the counter of the search before to the
\* next search
NextContractSameFlag ==
    /\ contract \in 1..(LastContract - 1)
    /\ mainpc = "finished"
    /\ all_results' =
          Append(all_results,
                 VanityResult(contract, CHOOSE r \in result : TRUE,
                              total_attempts))
    /\ first_search' = IF contract = 1
                       THEN [found |-> found, attempts |-> attempts]
                       ELSE first_search
    /\ contract' = contract + 1
    /\ prog' = RoutineOf(contract + 1)
    /\ hits' \in Oracles(RoutineOf(contract + 1), threads)
    /\ mainpc' = "searching"
    /\ taken' = {}
    /\ rfound' = FALSE
    /\ results' = {}
    /\ result' = NoResult
    /\ total_attempts' = 0
    /\ visited' = [i \in ItemsOf(RoutineOf(contract + 1), threads) |-> <<>>]
    /\ UNCHANGED <<found, attempts, tpc, locals, printed, foundHist,
                   derivedAfterFound>>
    /\ UNCHANGED <<threads, pool, fin, fout, args, parsed, budget, chainVars,
                   repVars>>

\* all_results.push(..); the next generate_vanity_..: the artifact is read
\* (a file outside the repository: the read can fail and main panics) and
\* the search routine is entered with a flag and a counter of its own
NextContract ==
    /\ contract \in 1..(LastContract - 1)
    /\ mainpc = "finished"
    /\ all_results' =
          Append(all_results,
                 VanityResult(contract, CHOOSE r \in result : TRUE,
                              total_attempts))
    /\ first_search' = IF contract = 1
                       THEN [found |-> found, attempts |-> attempts]
                       ELSE first_search
    /\ \/ /\ contract' = contract + 1
          /\ prog' = RoutineOf(contract + 1)
          /\ hits' \in Oracles(RoutineOf(contract + 1), threads)
          /\ mainpc' = "searching"
          /\ FreshSearch(RoutineOf(contract + 1))
       \/ /\ mainpc' = "panicked"
          /\ UNCHANGED <<contract, prog, hits, searchFrame>>
    /\ UNCHANGED <<threads, pool, fin, fout, args, parsed, budget, chainVars,
                   repVars>>

\* the last push, fs::write(..).expect(..) and the summary
AllComplete ==
    /\ contract = LastContract
    /\ mainpc = "finished"
    /\ all_results' =
          Append(all_results,
                 VanityResult(contract, CHOOSE r \in result : TRUE,
                              total_attempts))
    /\ mainpc' \in {"complete", "panicked"}
    /\ UNCHANGED <<contract, prog, hits, first_search, searchFrame>>
    /\ UNCHANGED <<threads, pool, fin, fout, args, parsed, budget, chainVars,
                   repVars>>

\* the reporter of the first search after that search: it holds the first
\* search's flag and counter.  sleep(..); if found_clone.load(..) { break; }
FirstReporterWake ==
    /\ contract > 1
    /\ rpc = "sleep"
    /\ rpc' = IF first_search.found THEN "exited" ELSE "report"
    /\ UNCHANGED last_attempts
    /\ UNCHANGED <<cfgVars, found, attempts, taken, rfound, results, tpc,
                   titem, salt_value, local_attempts, address,
                   mainVars, printed, visitHist, foundHist>>

\* let current = attempts_clone.load(..); ..; last_attempts = current
FirstReporterReport ==
    /\ contract > 1
    /\ rpc = "report"
    /\ last_attempts' = first_search.attempts
    /\ rpc' = "sleep"
    /\ UNCHANGED <<cfgVars, found, attempts, taken, rfound, results, tpc,
                   titem, salt_value, local_attempts, address,
                   mainVars, printed, visitHist, foundHist>>

AllNext ==
    \/ \E t \in Threads : \E i \in ItemsOf(prog, threads) : Take(t, i)
    \/ \E t \in Threads : Retire(t)
    \/ \E t \in Threads : FullCheck(t)
    \/ \E t \in Threads : FullCount(t)
    \/ \E t \in Threads : FullMatch(t)
    \/ \E t \in Threads : PartialCheck(t)
    \/ \E t \in Threads : PartialCount(t)
    \/ \E t \in Threads : PartialMatch(t)
    \/ SearchReturns
    \/ FullFinish
    \/ PartialFinish
    \/ ReporterWake
    \/ ReporterReport
    \/ FirstReporterWake
    \/ FirstReporterReport
    \/ NextContract
    \/ AllComplete

AllSpec == AllInit /\ [][AllNext]_vars

\* the bytes a "0x.." string of a VanityResult stands for
HexBytes(str) == hex_decode(SubSeq(str, 3, Len(str))).bytes

\* the pattern the search for contract k tests
MatchesPatternOf(k, addr) ==
    IF k = 1 THEN full_pattern(addr) ELSE partial_pattern(addr)

\* C33: in all-contracts-real-deployer the four searches run one after
\* another, each with a flag and a counter of its own: a search starts with
\* the flag false, the counter 0 and no closure of the search before still
\* running; its flag is set by its own closures only and its counter counts
\* its own candidates only; the reporter of the first search, while it is
\* still there, changes neither; every result pushed is derived from its salt
\* and matches the pattern of its contract; and when main is through, the list
\* holds one result per contract in the order OFT, Vault, Wrapper, Strategy.
C33_SearchesInSequence ==
    /\ [](mainpc \in {"searching", "returned", "finished"}
             => Len(all_results) = contract - 1)
    /\ [](mainpc = "complete" =>
             /\ Len(all_results) = LastContract
             /\ [k \in 1..LastContract |-> all_results[k].contract_name]
                   = ContractNames)
    /\ [](\A k \in 1..Len(all_results) :
             /\ all_results[k].contract_name = ContractNames[k]
             /\ MatchesPatternOf(k, HexBytes(all_results[k].address))
             /\ all_results[k].attempts \in 1..RangeEnd)
    /\ [](/\ found => (foundBy # {} /\ foundBy \subseteq taken)
          /\ attempts <= Cardinality(taken)
          /\ Cardinality(Evaluated) <= attempts)
    /\ [][ /\ contract' # contract =>
                /\ contract' = contract + 1
                /\ \A t \in Threads : tpc[t] = "done" /\ tpc'[t] = "idle"
                /\ ~found' /\ attempts' = 0 /\ taken' = {}
                /\ mainpc' = "searching"
           /\ Len(all_results') > Len(all_results) =>
                LET r == all_results'[Len(all_results')]
                IN  /\ Len(all_results') = contract
                    /\ HexBytes(r.address) =
                          reg_calculate_create2_address(
                              REG_DEPLOYER, HexBytes(r.salt), REG_INIT_CODE_HASH)
                    /\ r.attempts = attempts
           /\ (contract > 1 /\ repVars' # repVars) =>
                UNCHANGED <<found, attempts, tpc, results, result,
                            all_results, contract>>
         ]_vars

\* main is through with the four searches while the reporter of the first
\* search has not left its loop
C33_Witness ==
    /\ mainpc = "complete"
    /\ Len(all_results) = LastContract
    /\ rpc # "exited"
    /\ all_results[1].pattern = "0x47...ea91e"
    /\ all_results[LastContract].contract_name = "CharmStrategyUSD1"

AmountOf(m) == m[38] * 16777216 + m[39] * 65536 + m[40] * 256 + m[41]

C37_SupplyBacked ==
    IF oft_config.exists
    THEN /\ oft_config.total_bridged_out <= oft_config.total_bridged_in
         /\ mint_supply <=
              oft_config.total_bridged_in - oft_config.total_bridged_out
    ELSE mint_supply = 0

\* two deliveries were minted and a holder burned in between: the supply
\* is below what was bridged in
C37_Witness ==
    /\ ret.ix = "lz_receive"
    /\ ret.err = "Ok"
    /\ oft_config.total_bridged_in = 2
    /\ oft_config.total_bridged_out = 0
    /\ mint_supply = 1

\* a delivery that ended Ok
Credited(r) == r.ix = "lz_receive" /\ r.err = "Ok"

\* C38: an inbound message is credited at most once: of two deliveries
\* with the same origin (src_eid, sender, nonce) and guid, here one right
\* after the other, the second mints nothing.
C38_CreditedOnce ==
    [][ ( /\ Credited(ret)
          /\ ret'.ix = "lz_receive"
          /\ ret'.data.origin = ret.data.origin
          /\ ret'.data.guid = ret.data.guid ) =>
            /\ mint_supply' = mint_supply
            /\ token_amount' = token_amount ]_vars

(***************************************************************************)
(* eagle-oft-layerzero: the message codec, applied to sample arguments.    *)
(* An amount is a u64; next to the amounts an integer of the model can     *)
(* hold, the codec is applied to amounts given as four 16-bit words, the   *)
(* most significant first, so that all eight bytes are exercised.          *)
(***************************************************************************)
\* u64::to_be_bytes of an amount given as words
u64_to_be_bytes(w) ==
    [j \in 1..8 |-> IF j % 2 = 1 THEN w[(j + 1) \div 2] \div 256
                    ELSE w[j \div 2] % 256]

\* u64::from_be_bytes, as words
u64_from_be_bytes(b) == [k \in 1..4 |-> b[2 * k - 1] * 256 + b[2 * k]]

\* the words of an amount below 2^31
WordsOf(n) == <<0, 0, n \div 65536, n % 65536>>

\* encode_oft_message with the amount as words
encode_oft_message_u64(msg_type, to, amount) ==
    (<<msg_type>> \o to) \o u64_to_be_bytes(amount)

\* decode_oft_message with the amount as words
decode_oft_message_u64(message) ==
    IF Len(message) < 41 THEN [err |-> "InvalidMessage"]
    ELSE [err |-> "Ok",
          msg_type |-> At(message, 0),
          to |-> SubSeq(message, 2, 33),
          amount |-> u64_from_be_bytes(SubSeq(message, 34, 41))]

\* recipients whose bytes differ from place to place
CodecKeys == {ALICE, [i \in 1..32 |-> i], [i \in 1..32 |-> 256 - i]}

CodecTypes == {MSG_TYPE_SEND, MSG_TYPE_SEND_AND_CALL, 255}

CodecAmounts == {0, 1, 258, 16777216, 2147483647}

CodecWords ==
    {<<0, 0, 0, 0>>, <<1, 2, 3, 4>>, <<32768, 0, 0, 255>>,
     <<65535, 65535, 65535, 65535>>}

EncodeCalls ==
    [kind : {"encode"}, msg_type : CodecTypes, to : CodecKeys,
     amount : CodecAmounts, words : CodecWords]

\* a message of 42 bytes and every prefix of it, and a message of zeros
LongMessage ==
    encode_oft_message_u64(MSG_TYPE_SEND, [i \in 1..32 |-> i],
                           <<1, 2, 3, 4>>) \o <<9>>

DecodeCalls ==
    [kind : {"decode"},
     message : { SubSeq(LongMessage, 1, n) : n \in 0..42 }
                 \cup { Zeros(n) : n \in 39..42 }]

CodecInit ==
    /\ fin \in EncodeCalls \cup DecodeCalls
    /\ fout = NoCall
    /\ prog = "eagle-oft-layerzero"
    /\ hits = {}
    /\ pool = 1
    /\ threads = 1
    /\ SearchInit
    /\ args = GenArgs
    /\ parsed = Parsed
    /\ budget = MaxIter
    /\ NoContracts
    /\ NoChain

\* encode_oft_message applied to the call, and decode_oft_message to what
\* it returned
ApplyEncode ==
    /\ fin.kind = "encode"
    /\ fout = NoCall
    /\ LET message == encode_oft_message(fin.msg_type, fin.to, fin.amount)
           message_u64 ==
             encode_oft_message_u64(fin.msg_type, fin.to, fin.words)
       IN  fout' = [message |-> message,
                    decoded |-> decode_oft_message(message),
                    message_u64 |-> message_u64,
                    decoded_u64 |-> decode_oft_message_u64(message_u64)]
    /\ UNCHANGED <<prog, threads, pool, hits, fin, args, parsed, budget, allVars,
                   chainVars, searchVars>>

\* decode_oft_message applied to the bytes of the call
ApplyDecode ==
    /\ fin.kind = "decode"
    /\ fout = NoCall
    /\ fout' = [decoded |-> decode_oft_message(fin.message),
                decoded_u64 |-> decode_oft_message_u64(fin.message)]
    /\ UNCHANGED <<prog, threads, pool, hits, fin, args, parsed, budget, allVars,
                   chainVars, searchVars>>

CodecNext == ApplyEncode \/ ApplyDecode

CodecSpec == CodecInit /\ [][CodecNext]_vars

\* C39: decode_oft_message gives back the (msg_type, to, amount) that
\* encode_oft_message was given, for every message type, 32-byte recipient
\* and amount; encode_oft_message returns exactly 41 bytes; and
\* decode_oft_message fails with OftError::InvalidMessage for every message
\* shorter than 41 bytes (and for no other).
C39_CodecRoundTrip ==
    fout # NoCall =>
        /\ fin.kind = "encode" =>
              /\ Len(fout.message) = 41
              /\ Len(fout.message_u64) = 41
              /\ fout.decoded =
                   [err |-> "Ok", msg_type |-> fin.msg_type, to |-> fin.to,
                    amount |-> fin.amount]
              /\ fout.decoded_u64 =
                   [err |-> "Ok", msg_type |-> fin.msg_type, to |-> fin.to,
                    amount |-> fin.words]
              /\ encode_oft_message_u64(fin.msg_type, fin.to,
                                        WordsOf(fin.amount)) = fout.message
        /\ fin.kind = "decode" =>
              /\ Len(fin.message) < 41 <=>
                   fout.decoded = [err |-> "InvalidMessage"]
              /\ Len(fin.message) < 41 <=>
                   fout.decoded_u64 = [err |-> "InvalidMessage"]
              /\ Len(fin.message) >= 41 =>
                   /\ fout.decoded.err = "Ok"
                   /\ fout.decoded.to = SubSeq(fin.message, 2, 33)
                   /\ fout.decoded_u64.to = fout.decoded.to
                   /\ SubSeq(fout.decoded_u64.amount, 3, 4) =
                        SubSeq(WordsOf(fout.decoded.amount), 3, 4)

\* a message with a recipient of distinct bytes and the largest amount of
\* each kind was encoded and decoded again
C39_Witness ==
    /\ fout # NoCall
    /\ fin.kind = "encode"
    /\ fin.to = [i \in 1..32 |-> i]
    /\ fin.amount = 2147483647
    /\ fin.words = <<65535, 65535, 65535, 65535>>
    /\ fout.message[34] = 0 /\ fout.message[38] = 127 /\ fout.message[41] = 255
    /\ fout.message_u64[34] = 255
    /\ fout.decoded.amount = fin.amount

\* a message one byte short was refused
C39_ShortRefused ==
    /\ fout # NoCall
    /\ fin.kind = "decode"
    /\ Len(fin.message) = 40
    /\ fout.decoded.err = "InvalidMessage"

====
